---- MODULE Spec2Model ----
(***************************************************************************)
(* A model of the league-chain resolution and cross-season query engine of *)
(* the sleeper-mcp-server repository:                                      *)
(*   - chainLeagueHistory / fetchLeagueHistoryMap   (src/src/utils/api.ts) *)
(*   - parseYearParameter                           (utils/helpers.ts)     *)
(*   - processLeagueDataByYear                      (src/src/index.ts)     *)
(*   - the per-season processors                (src/src/utils/processors) *)
(* A JavaScript string is a sequence of one-character strings, so that     *)
(* split, trim, parseInt and toString are computed character by character. *)
(***************************************************************************)
EXTENDS Integers, Sequences, FiniteSets

VARIABLES
    \* ---- league chain walk (fetchLeagueHistoryMap / chainLeagueHistory)
    upstream,         \* league id -> the League object the API has served for it
    cpc,              \* position of the walk
    currentLeague,    \* id of the league the walk started from
    leagueDetails,    \* the League snapshot the current frame holds
    historyMap,       \* the accumulator Record<season, LeagueHistoryEntry>
    chainResult,      \* what fetchLeagueHistoryMap returned
    visited,          \* ids of the leagues whose snapshot a frame has recorded
    allFetchesOk,     \* no upstream fetch of this walk has failed
    \* ---- parseYearParameter
    yearShape,        \* how the year expression was written
    year,             \* the year argument: a string or Undefined
    availableYears,   \* the caller's array of known seasons
    requestedYears,
    yearsToProcess,
    ypc,
    \* ---- processLeagueDataByYear and the per-season processors
    processor,        \* which Processor the tool passed
    leagueHistoryMap, \* result of fetchLeagueHistoryMap: a map or Null
    dpc,              \* position of the handler
    calls,            \* the processor invocations made, in order
    resultsByYear,    \* the results pushed, in order
    toolResult,       \* the CallToolResult the handler returned
    \* ---- fetchMatchup
    mpc,              \* position of fetchMatchup
    week,             \* the week argument
    matchupYear,      \* the matchupYear argument
    allMatchups,      \* the week's scoring entries, while they are read
    rosters,          \* the league's enhanced rosters, while they are read
    userRoster,       \* the scoring entry of the user's roster
    opponentRoster,   \* the scoring entry chosen as the opponent's
    userOwners,       \* ownerNames of the user's roster
    opponentOwners,   \* ownerNames of the opponent's roster
    nflState,         \* what fetchNFLState resolved to
    matchupStatus,    \* the status derived at api.ts:377-399
    matchupDetails,   \* what fetchMatchup returned
    \* ---- fetchBenchVsStarterAnalysis and analyzeLineup
    lpc,              \* position of fetchBenchVsStarterAnalysis
    lineupDetails,    \* the MatchupDetails its fetchMatchup resolved to
    lineupAnalysis,   \* the BenchVsStarterAnalysis it returned
    lineupThrew,      \* it ended with an exception
    \* ---- processPlayoffBracket, fetchLeaguePlayoffBracket and buildBracket
    bpc,              \* position of fetchLeaguePlayoffBracket
    bracketData,      \* the edges of the winners bracket
    bracketRosters,   \* the league's enhanced rosters
    bracketLeague,    \* the League fetched with them
    bracketState,     \* currentWeek and playoffWeekStart of the second fetches
    playoffBracket,   \* what fetchLeaguePlayoffBracket returned
    builds,           \* number of calls of buildBracket
    bracketReport,    \* what processPlayoffBracket returned
    \* ---- processSeasonMatchupsBetweenUsers
    hpc,              \* position of processSeasonMatchupsBetweenUsers
    matchupData,      \* what fetchSeasonMatchupsBetweenUsers resolved to
    headToHead,       \* the report it returned
    \* ---- enhanceMatchupWithPlayerDetails
    epc,              \* position of enhanceMatchupWithPlayerDetails
    matchupEntry,     \* the Matchup it is given
    rosterPositions,  \* the league's roster_positions
    enhancedMatchup,  \* the EnhancedMatchup it returned
    \* ---- processPlayoffHistory and fetchLeaguePlayoffHistory
    ppc,              \* position of fetchLeaguePlayoffHistory
    historySeason,    \* the season argument
    historyLeague,    \* the League it fetched
    finalStandings,   \* the standings read from the last round
    historyFetches,   \* the fetches it has made, in order
    yearData,         \* what it returned
    historyReport,    \* what processPlayoffHistory returned
    \* ---- fetchSeasonMatchupsBetweenUsers
    spc,              \* position of fetchSeasonMatchupsBetweenUsers
    opponentRosterId, \* the roster the opponent owns or co-owns, if any
    weeksToProcess,   \* the last week the scan visits
    scanWeek,         \* the loop variable week
    weeksAttempted,   \* the weeks fetchMatchup was called for, in order
    seasonMatchups,   \* the array matchups
    seasonResult,     \* what the function returned
    requestLog,       \* the calls of fetch made by makeRequest, in order
    ownerResolutions, \* roster id -> times its owners' names were resolved
    \* ---- the identity resolvers fetchUserId and fetchLeagueId
    resolver,         \* the file whose fetchUserId / fetchLeagueId are called
    userLeagues,      \* season -> id of the user's league of the name, if any
    userCache,        \* the Map userCache
    leagueCache,      \* the Map leagueCache
    lookups           \* the calls of the resolvers and how far each has got

chainVars == <<upstream, cpc, currentLeague, leagueDetails, historyMap,
               chainResult, visited, allFetchesOk>>
yearVars == <<yearShape, year, availableYears, requestedYears, yearsToProcess, ypc>>
dispatchVars == <<processor, leagueHistoryMap, dpc, calls, resultsByYear, toolResult>>
matchupVars == <<mpc, week, matchupYear, allMatchups, rosters, userRoster,
                 opponentRoster, userOwners, opponentOwners, nflState,
                 matchupStatus, matchupDetails>>
\* the state of the functions analysed on their own
lineupVars == <<lpc, lineupDetails, lineupAnalysis, lineupThrew>>
bracketVars == <<bpc, bracketData, bracketRosters, bracketLeague, bracketState,
                 playoffBracket, builds, bracketReport>>
headToHeadVars == <<hpc, matchupData, headToHead>>
enhanceVars == <<epc, matchupEntry, rosterPositions, enhancedMatchup>>
seasonVars == <<spc, opponentRosterId, weeksToProcess, scanWeek, weeksAttempted,
                seasonMatchups, seasonResult, requestLog, ownerResolutions>>
identityVars == <<resolver, userLeagues, userCache, leagueCache, lookups>>
playoffHistoryVars == <<ppc, historySeason, historyLeague, finalStandings,
                        historyFetches, yearData, historyReport>>
analysisVars == <<matchupVars, lineupVars, bracketVars, headToHeadVars,
                 enhanceVars,
                 playoffHistoryVars,
                 seasonVars,
                 identityVars>>
vars == <<chainVars, yearVars, dispatchVars, analysisVars>>

-----------------------------------------------------------------------------
(* Bounds of the model *)

\* number of league ids the upstream API knows
MaxLeagues == 3
\* the first season label; the seasons run across the 9 -> 10 digit boundary
FirstSeason == 8
\* number of consecutive season labels
NumSeasons == 4
\* longest comma-separated list of a year expression
MaxListLen == 3
\* longest free-form (possibly malformed) year expression
MaxRawLen == 3
\* number of rosters of a league
MaxRosters == 3
\* number of weeks of a season
MaxWeek == 2
\* the most points a player scores in a week
MaxPoints == 2
\* the most games two users play against each other in a season
MaxGames == 3
\* number of players a roster holds
MaxPlayers == 3
\* number of calls of the identity resolvers that may overlap
MaxLookups == 2

SeasonInts == FirstSeason..(FirstSeason + NumSeasons - 1)
LeagueIds == 1..MaxLeagues
\* previous_league_id of a league that has no previous league (null)
NoLeague == 0

-----------------------------------------------------------------------------
(* JavaScript values *)

\* a value that may be null: null itself, as makeRequest and the fetch*
\* functions return on failure, or a value
Null == [isNull |-> TRUE, value |-> <<>>]
Some(v) == [isNull |-> FALSE, value |-> v]
\* undefined: an absent argument (never equal to a string of characters)
Undefined == <<"undefined">>
\* the NaN that parseInt returns when no digit is found
NaN == 0 - 1

DigitChars == <<"0", "1", "2", "3", "4", "5", "6", "7", "8", "9">>
IsDigit(c) == \E i \in 1..10 : DigitChars[i] = c
DigitVal(c) == (CHOOSE i \in 1..10 : DigitChars[i] = c) - 1
IsSpace(c) == c = " "

\* Number.prototype.toString() of a non-negative integer
RECURSIVE ToString(_)
ToString(n) ==
    IF n < 10 THEN <<DigitChars[n + 1]>>
    ELSE ToString(n \div 10) \o <<DigitChars[(n % 10) + 1]>>

\* String.prototype.trim()
RECURSIVE TrimStart(_)
TrimStart(s) ==
    IF s # <<>> /\ IsSpace(Head(s)) THEN TrimStart(Tail(s)) ELSE s

RECURSIVE TrimEnd(_)
TrimEnd(s) ==
    IF s # <<>> /\ IsSpace(s[Len(s)]) THEN TrimEnd(SubSeq(s, 1, Len(s) - 1)) ELSE s

Trim(s) == TrimEnd(TrimStart(s))

\* the value of the longest prefix of decimal digits of s, given the value acc
\* of the digits already read
RECURSIVE DigitsValue(_, _)
DigitsValue(s, acc) ==
    IF s # <<>> /\ IsDigit(Head(s))
    THEN DigitsValue(Tail(s), 10 * acc + DigitVal(Head(s)))
    ELSE acc

\* parseInt(s): leading white space is skipped, the digits are read up to the
\* first other character, and NaN results when there is no digit. (A sign is
\* never present: the only caller that parses user text splits it on "-".)
ParseInt(s) ==
    LET t == TrimStart(s)
    IN  IF t # <<>> /\ IsDigit(Head(t)) THEN DigitsValue(t, 0) ELSE NaN

\* String.prototype.includes(c) for a one-character c
StrIncludes(s, c) == \E i \in 1..Len(s) : s[i] = c

\* Array.prototype.includes(x)
Includes(arr, x) == \E i \in 1..Len(arr) : arr[i] = x

\* String.prototype.split(sep) for a one-character separator
RECURSIVE Split(_, _)
Split(s, sep) ==
    IF ~StrIncludes(s, sep) THEN <<s>>
    ELSE LET i == CHOOSE k \in 1..Len(s) :
                      s[k] = sep /\ \A j \in 1..(k - 1) : s[j] # sep
         IN  <<SubSeq(s, 1, i - 1)>> \o Split(SubSeq(s, i + 1, Len(s)), sep)

\* Array.prototype.map / filter
MapSeq(arr, F(_)) == [i \in 1..Len(arr) |-> F(arr[i])]
FilterSeq(arr, P(_)) == SelectSeq(arr, P)

\* the elements of a sequence, and ascending order of a set of integers
Range(arr) == {arr[i] : i \in 1..Len(arr)}

RECURSIVE AscendingSeq(_)
AscendingSeq(S) ==
    IF S = {} THEN <<>>
    ELSE LET m == CHOOSE x \in S : \A y \in S : x <= y
         IN  <<m>> \o AscendingSeq(S \ {m})

\* Object.keys(map) of an object whose keys are canonical integer strings:
\* integer-like keys come first, in ascending numeric order
ObjectKeys(map) ==
    MapSeq(AscendingSeq({ParseInt(k) : k \in DOMAIN map}), ToString)

-----------------------------------------------------------------------------
(* parseYearParameter *)

\* a comparator with its operands exchanged: (a, b) => parseInt(a) - parseInt(b)
CompareYearsAscending(a, b) == ParseInt(a) - ParseInt(b)

\* the comparator of the sort: (a, b) => parseInt(b) - parseInt(a)
CompareYearsDescending(a, b) == ParseInt(b) - ParseInt(a)

\* Array.prototype.sort(compare) is a stable sort, here by insertion: x goes
\* after every element that does not compare greater than it.
RECURSIVE InsertSorted(_, _)
InsertSorted(sorted, x) ==
    IF sorted = <<>> THEN <<x>>
    ELSE IF CompareYearsDescending(Head(sorted), x) <= 0
         THEN <<Head(sorted)>> \o InsertSorted(Tail(sorted), x)
         ELSE <<x>> \o sorted

\* [...availableYears].sort((a, b) => parseInt(b) - parseInt(a))
RECURSIVE SortYearsDescending(_)
SortYearsDescending(arr) ==
    IF arr = <<>> THEN <<>>
    ELSE InsertSorted(SortYearsDescending(SubSeq(arr, 1, Len(arr) - 1)),
                      arr[Len(arr)])

\* branch 1: no year given. requestedYears is the caller's array itself and
\* yearsToProcess a sorted copy; the caller's array is returned as left behind.
AllAvailableYears(available) ==
    [requestedYears |-> available,
     yearsToProcess |-> SortYearsDescending(available),
     availableYears |-> available]

\* a loop that records a year as requested only when it is available
RECURSIVE RangeLoopAvailableOnly(_, _, _, _, _)
RangeLoopAvailableOnly(y, end, available, requested, toProcess) ==
    IF y = NaN \/ end = NaN \/ ~(y <= end)
    THEN [requestedYears |-> requested, yearsToProcess |-> toProcess,
          availableYears |-> available]
    ELSE IF Includes(available, ToString(y))
         THEN RangeLoopAvailableOnly(y + 1, end, available,
                  Append(requested, ToString(y)), Append(toProcess, ToString(y)))
         ELSE RangeLoopAvailableOnly(y + 1, end, available, requested, toProcess)

\* branch 2, the loop: for (let y = start; y <= end; y++)
RECURSIVE RangeLoop(_, _, _, _, _)
RangeLoop(y, end, available, requested, toProcess) ==
    IF y = NaN \/ end = NaN \/ ~(y <= end)
    THEN [requestedYears |-> requested, yearsToProcess |-> toProcess,
          availableYears |-> available]
    ELSE RangeLoop(y + 1, end, available,
                   Append(requested, ToString(y)),
                   IF Includes(available, ToString(y))
                   THEN Append(toProcess, ToString(y))
                   ELSE toProcess)

\* a range that stops one season short of its end (y < end)
YearRangeExclusive(yr, available) ==
    LET parts == MapSeq(Split(yr, "-"), LAMBDA p : ParseInt(Trim(p)))
    IN  RangeLoop(parts[1], parts[2] - 1, available, <<>>, <<>>)

\* branch 2: "2022-2024"
YearRange(yr, available) ==
    LET parts == MapSeq(Split(yr, "-"), LAMBDA p : ParseInt(Trim(p)))
    IN  RangeLoop(parts[1], parts[2], available, <<>>, <<>>)

\* a list whose tokens keep the spaces around them
YearListUntrimmed(yr, available) ==
    LET requested == Split(yr, ",")
    IN  [requestedYears |-> requested,
         yearsToProcess |-> FilterSeq(requested, LAMBDA y : Includes(available, y)),
         availableYears |-> available]

\* branch 3: "2022,2023,2024"
YearList(yr, available) ==
    LET requested == MapSeq(Split(yr, ","), Trim)
    IN  [requestedYears |-> requested,
         yearsToProcess |-> FilterSeq(requested, LAMBDA y : Includes(available, y)),
         availableYears |-> available]

\* a single year processed whether or not the league has it
SingleYearUnchecked(yr, available) ==
    [requestedYears |-> <<yr>>, yearsToProcess |-> <<yr>>,
     availableYears |-> available]

\* branch 4: a single year
SingleYear(yr, available) ==
    [requestedYears |-> <<yr>>,
     yearsToProcess |-> IF Includes(available, yr) THEN <<yr>> ELSE <<>>,
     availableYears |-> available]

\* !year holds of undefined and of the empty string
ParseYearParameter(yr, available) ==
    IF yr = Undefined \/ yr = <<>> THEN AllAvailableYears(available)
    ELSE IF StrIncludes(yr, "-") THEN YearRange(yr, available)
    ELSE IF StrIncludes(yr, ",") THEN YearList(yr, available)
    ELSE SingleYear(yr, available)

-----------------------------------------------------------------------------
(* Year expressions given to the tools *)

\* the separators a user writes: "a,b", "a, b", "a , b"; "a-b", "a - b"
PadKinds == {0, 1, 2}
Separator(c, pad) ==
    IF pad = 0 THEN <<c>> ELSE IF pad = 1 THEN <<c, " ">> ELSE <<" ", c, " ">>

RECURSIVE Join(_, _)
Join(strs, sep) ==
    IF strs = <<>> THEN <<>>
    ELSE IF Len(strs) = 1 THEN strs[1]
    ELSE strs[1] \o sep \o Join(Tail(strs), sep)

RawChars == {"9", "1", "0", "-", ",", " "}
RECURSIVE StringsOfLen(_)
StringsOfLen(n) ==
    IF n = 0 THEN {<<>>}
    ELSE {Append(s, c) : s \in StringsOfLen(n - 1), c \in RawChars}

RawStrings == UNION {StringsOfLen(n) : n \in 0..MaxRawLen}

TokenLists(n) == [1..n -> SeasonInts]

Shape(kind, toks, pad, str) == [kind |-> kind, toks |-> toks, pad |-> pad, str |-> str]

YearShapes ==
    {Shape("absent", <<>>, 0, <<>>)}
    \cup {Shape("single", <<a>>, 0, <<>>) : a \in SeasonInts}
    \cup {Shape("range", <<a, b>>, pad, <<>>) :
              a \in SeasonInts, b \in SeasonInts, pad \in {0, 2}}
    \cup {Shape("list", toks, pad, <<>>) :
              toks \in UNION {TokenLists(n) : n \in 2..MaxListLen}, pad \in PadKinds}
    \cup {Shape("raw", <<>>, 0, s) : s \in RawStrings}

\* the text of a year expression
Render(shape) ==
    CASE shape.kind = "absent" -> Undefined
      [] shape.kind = "single" -> ToString(shape.toks[1])
      [] shape.kind = "range"  ->
            Join(MapSeq(shape.toks, ToString), Separator("-", shape.pad))
      [] shape.kind = "list"   ->
            Join(MapSeq(shape.toks, ToString), Separator(",", shape.pad))
      [] OTHER -> shape.str

\* the seasons of a league history, as Object.keys lists them (index.ts:64)
AvailableYearArrays ==
    {MapSeq(AscendingSeq(S), ToString) : S \in SUBSET SeasonInts}

-----------------------------------------------------------------------------
(* Idle values of the parts a specification does not exercise *)

ChainIdle ==
    /\ upstream = <<>>
    /\ cpc = "idle"
    /\ currentLeague = NoLeague
    /\ leagueDetails = Null
    /\ historyMap = <<>>
    /\ chainResult = Null
    /\ visited = {}
    /\ allFetchesOk = TRUE

YearIdle ==
    /\ yearShape = Shape("absent", <<>>, 0, <<>>)
    /\ year = Undefined
    /\ availableYears = <<>>
    /\ requestedYears = <<>>
    /\ yearsToProcess = <<>>
    /\ ypc = "idle"

DispatchIdle ==
    /\ processor = "none"
    /\ leagueHistoryMap = Null
    /\ dpc = "idle"
    /\ calls = <<>>
    /\ resultsByYear = <<>>
    /\ toolResult = Null

MatchupIdle ==
    /\ mpc = "idle"
    /\ week = 0
    /\ matchupYear = <<>>
    /\ allMatchups = Null
    /\ rosters = Null
    /\ userRoster = Null
    /\ opponentRoster = Null
    /\ userOwners = <<>>
    /\ opponentOwners = <<>>
    /\ nflState = Null
    /\ matchupStatus = Null
    /\ matchupDetails = Null

LineupIdle ==
    /\ lpc = "idle"
    /\ lineupDetails = Null
    /\ lineupAnalysis = Null
    /\ lineupThrew = FALSE

BracketIdle ==
    /\ bpc = "idle"
    /\ bracketData = Null
    /\ bracketRosters = Null
    /\ bracketLeague = Null
    /\ bracketState = Null
    /\ playoffBracket = Null
    /\ builds = 0
    /\ bracketReport = Null

HeadToHeadIdle ==
    /\ hpc = "idle"
    /\ matchupData = Null
    /\ headToHead = Null

EnhanceIdle ==
    /\ epc = "idle"
    /\ matchupEntry = Null
    /\ rosterPositions = <<>>
    /\ enhancedMatchup = Null

PlayoffHistoryIdle ==
    /\ ppc = "idle"
    /\ historySeason = <<>>
    /\ historyLeague = Null
    /\ finalStandings = <<>>
    /\ historyFetches = <<>>
    /\ yearData = Null
    /\ historyReport = Null

SeasonIdle ==
    /\ spc = "idle"
    /\ opponentRosterId = Null
    /\ weeksToProcess = 0
    /\ scanWeek = 0
    /\ weeksAttempted = <<>>
    /\ seasonMatchups = <<>>
    /\ seasonResult = Null
    /\ requestLog = <<>>
    /\ ownerResolutions = <<>>

IdentityIdle ==
    /\ resolver = "none"
    /\ userLeagues = <<>>
    /\ userCache = <<>>
    /\ leagueCache = <<>>
    /\ lookups = <<>>

AnalysisIdle ==
    /\ MatchupIdle
    /\ LineupIdle
    /\ BracketIdle
    /\ HeadToHeadIdle
    /\ EnhanceIdle
    /\ PlayoffHistoryIdle
    /\ SeasonIdle
    /\ IdentityIdle

-----------------------------------------------------------------------------
(* The league chain: fetchLeagueHistoryMap and chainLeagueHistory *)

SeasonLabels == {ToString(n) : n \in SeasonInts}

\* the League object of league id: the current league is in season, the
\* leagues of earlier seasons are complete
League(id, season, previous, status) ==
    [league_id |-> id, name |-> "league", season |-> season,
     previous_league_id |-> previous, status |-> status]

\* the objects GET /league/<id> may answer with: the one already served for
\* this id, or any object of that id when it is asked for the first time
LeagueObjects(id, status) ==
    IF id \in DOMAIN upstream THEN {upstream[id]}
    ELSE {League(id, s, p, status) :
              s \in SeasonLabels, p \in LeagueIds \cup {NoLeague}}

\* map[key] = value on a JavaScript object
Put(map, key, value) ==
    [k \in DOMAIN map \cup {key} |-> IF k = key THEN value ELSE map[k]]

\* a walk that returns at the oldest league before recording it
RecordEntryUnlessOldest(map, league) ==
    IF league.previous_league_id = NoLeague THEN map
    ELSE Put(map, league.season,
             [leagueId |-> league.league_id, leagueName |-> league.name,
              leagueStatus |-> league.status])

\* chainLeagueHistory, api.ts:293-299: leagueHistoryMap[season] = entry
RecordEntry(map, league) ==
    Put(map, league.season,
        [leagueId |-> league.league_id, leagueName |-> league.name,
         leagueStatus |-> league.status])

\* a resolver that discards the chain when the walk did not succeed
HistoryMapOnlyOnSuccess(success, map) == IF success THEN Some(map) ELSE Null

\* fetchLeagueHistoryMap, api.ts:325-332: success is not consulted
HistoryMapResult(success, map) == Some(map)

InitChain ==
    /\ upstream = <<>>
    /\ cpc = "fetchCurrent"
    /\ currentLeague = NoLeague
    /\ leagueDetails = Null
    /\ historyMap = <<>>
    /\ chainResult = Null
    /\ visited = {}
    /\ allFetchesOk = TRUE
    /\ YearIdle
    /\ DispatchIdle
    /\ AnalysisIdle

\* fetchLeagueHistoryMap: fetchLeagueData(leagueName, username) returns null
CurrentLeagueNotFound ==
    /\ cpc = "fetchCurrent"
    /\ chainResult' = Null
    /\ allFetchesOk' = FALSE
    /\ cpc' = "done"
    /\ UNCHANGED <<upstream, currentLeague, leagueDetails, historyMap, visited>>
    /\ UNCHANGED <<yearVars, dispatchVars, analysisVars>>

\* fetchLeagueHistoryMap: the current league is resolved, historyMap = {} and
\* chainLeagueHistory is entered with it
CurrentLeagueFound ==
    /\ cpc = "fetchCurrent"
    /\ \E id \in LeagueIds : \E league \in LeagueObjects(id, "in_season") :
          /\ upstream' = Put(upstream, id, league)
          /\ currentLeague' = id
          /\ leagueDetails' = Some(league)
    /\ historyMap' = <<>>
    /\ cpc' = "chain"
    /\ UNCHANGED <<chainResult, visited, allFetchesOk>>
    /\ UNCHANGED <<yearVars, dispatchVars, analysisVars>>

\* one frame of chainLeagueHistory up to its await: the entry is recorded;
\* without a previous league every frame returns true and
\* fetchLeagueHistoryMap returns; otherwise the previous league is fetched
ChainLeagueHistory ==
    /\ cpc = "chain"
    /\ LET league == leagueDetails.value
           map == RecordEntry(historyMap, league)
       IN  /\ historyMap' = map
           /\ visited' = visited \cup {league.league_id}
           /\ IF league.previous_league_id = NoLeague
              THEN /\ chainResult' = HistoryMapResult(TRUE, map)
                   /\ cpc' = "done"
              ELSE /\ chainResult' = chainResult
                   /\ cpc' = "await"
    /\ UNCHANGED <<upstream, currentLeague, leagueDetails, allFetchesOk>>
    /\ UNCHANGED <<yearVars, dispatchVars, analysisVars>>

\* the fetch of the previous league comes back null: every frame returns
\* false and fetchLeagueHistoryMap returns
PreviousLeagueFetchFails ==
    /\ cpc = "await"
    /\ chainResult' = HistoryMapResult(FALSE, historyMap)
    /\ allFetchesOk' = FALSE
    /\ cpc' = "done"
    /\ UNCHANGED <<upstream, currentLeague, leagueDetails, historyMap, visited>>
    /\ UNCHANGED <<yearVars, dispatchVars, analysisVars>>

\* the fetch of the previous league succeeds: chainLeagueHistory calls itself
\* with the new snapshot
PreviousLeagueFetched ==
    /\ cpc = "await"
    /\ LET id == leagueDetails.value.previous_league_id
       IN  \E league \in LeagueObjects(id, "complete") :
               /\ upstream' = Put(upstream, id, league)
               /\ leagueDetails' = Some(league)
    /\ cpc' = "chain"
    /\ UNCHANGED <<currentLeague, historyMap, chainResult, visited, allFetchesOk>>
    /\ UNCHANGED <<yearVars, dispatchVars, analysisVars>>

NextChain ==
    \/ CurrentLeagueNotFound
    \/ CurrentLeagueFound
    \/ ChainLeagueHistory
    \/ PreviousLeagueFetchFails
    \/ PreviousLeagueFetched

SpecChain == InitChain /\ [][NextChain]_vars

\* every step of the single-threaded event loop that can run does run, and
\* every fetch settles
SpecChainFair == SpecChain /\ WF_vars(NextChain)

-----------------------------------------------------------------------------
(* Properties of the league chain, under SpecChain and SpecChainFair *)

\* the leagues reached from the leagues of S by following previous_league_id
RECURSIVE FollowPrevious(_)
FollowPrevious(S) ==
    LET more == {upstream[id].previous_league_id : id \in S \cap DOMAIN upstream}
        next == (S \cup more) \ {NoLeague}
    IN  IF next = S THEN S ELSE FollowPrevious(next)

ChainLeagues == FollowPrevious({currentLeague})
WalkReturned == cpc = "done"

\* C1: when every fetch of a walk succeeds, the history map has one entry per
\* season, its keys are exactly the seasons of the leagues reachable from the
\* starting snapshot by previous_league_id, and every entry's leagueId is the
\* id of a league of that chain.
C1_MapIsTheChain ==
    (WalkReturned /\ allFetchesOk) =>
        /\ ~chainResult.isNull
        /\ DOMAIN chainResult.value = {upstream[id].season : id \in ChainLeagues}
        /\ \A s \in DOMAIN chainResult.value :
              /\ chainResult.value[s].leagueId \in ChainLeagues
              /\ upstream[chainResult.value[s].leagueId].season = s

C1_Witness ==
    /\ WalkReturned
    /\ allFetchesOk
    /\ Cardinality(ChainLeagues) = 3
    /\ Cardinality(DOMAIN chainResult.value) = 3

\* C2: the walk terminates for every upstream pointer chain, also one whose
\* previous_league_id leads back to a league already recorded.
C2_WalkTerminates == <>WalkReturned

\* C3: when the fetch of a previous league fails, fetchLeagueHistoryMap returns
\* a map with the entries of the leagues visited before the failing fetch,
\* the current league first; it returns null only when the current league
\* itself is not resolved.
C3_PartialHistoryIsReturned ==
    WalkReturned =>
        /\ chainResult.isNull <=> currentLeague = NoLeague
        /\ ~chainResult.isNull =>
              /\ currentLeague \in visited
              /\ DOMAIN chainResult.value = {upstream[id].season : id \in visited}
              /\ \A s \in DOMAIN chainResult.value :
                    /\ chainResult.value[s].leagueId \in visited
                    /\ upstream[chainResult.value[s].leagueId].season = s

C3_Witness ==
    /\ WalkReturned
    /\ ~allFetchesOk
    /\ ~chainResult.isNull
    /\ Cardinality(visited) = 2
    /\ Cardinality(DOMAIN chainResult.value) = 2
    /\ leagueDetails.value.previous_league_id \notin visited

-----------------------------------------------------------------------------
(* The per-season processors (processors.ts) *)

Processors ==
    {"processLeagueSettings", "processPlayoffSchedule", "processScoringSettings",
     "processRosterSettings", "processMatchupDetails", "processPlayoffHistory",
     "processMatchupStarters", "processMatchupBench"}

MatchupStatuses == {"completed", "in_progress", "upcoming"}

\* what a processor call ends with: a returned value or a thrown error
Returns(v) == [threw |-> FALSE, value |-> v]
Throws(e) == [threw |-> TRUE, value |-> [year |-> <<>>, text |-> e]]

\* the string a processor returns, by the season it is about and what it says
Report(currYear, text) == [year |-> currYear, text |-> text]

\* obj.name of a JavaScript object: undefined when obj has no such property
HasProperty(obj, name) == name \in DOMAIN obj

\* the MatchupPlayerBreakdown that fetchMatchupStarters (api.ts:501-514) and
\* fetchMatchupBench (api.ts:549-562) build
MatchupPlayerBreakdown(status) ==
    [userTeam |-> [name |-> <<"user">>, players |-> <<>>, totalPoints |-> 0],
     opponentTeam |-> [name |-> <<"opponent">>, players |-> <<>>, totalPoints |-> 0],
     week |-> 1,
     matchupStatus |-> status]

\* the values the fetch of a processor may resolve to: null when an upstream
\* request fails or a lookup misses, or the data of the season
FetchOutcomes(proc) ==
    CASE proc \in {"processMatchupStarters", "processMatchupBench"} ->
            {Null} \cup {Some(MatchupPlayerBreakdown(st)) : st \in MatchupStatuses}
      [] proc = "processMatchupDetails" ->
            {Null} \cup {Some([status |-> st]) : st \in MatchupStatuses}
      [] proc = "processPlayoffHistory" ->
            {Null} \cup {Some([isIncomplete |-> b]) : b \in BOOLEAN}
      [] OTHER -> {Null, Some([status |-> "data"])}

\* processLeagueSettings, processPlayoffSchedule, processScoringSettings,
\* processRosterSettings: an error line when the fetch gave null, the
\* formatted settings otherwise
ProcessSettings(currYear, fetched) ==
    IF fetched.isNull THEN Returns(Report(currYear, "Error: Could not fetch data"))
    ELSE Returns(Report(currYear, "settings"))

\* processMatchupDetails
ProcessMatchupDetails(currYear, fetched) ==
    IF fetched.isNull
    THEN Returns(Report(currYear, "Error: Could not fetch matchup data"))
    ELSE Returns(Report(currYear, fetched.value.status))

\* processPlayoffHistory
ProcessPlayoffHistory(currYear, fetched) ==
    IF fetched.isNull
    THEN Returns(Report(currYear, "Error: Could not fetch playoff data"))
    ELSE IF fetched.value.isIncomplete
    THEN Returns(Report(currYear, "Season is currently in progress"))
    ELSE Returns(Report(currYear, "placements"))

\* processMatchupStarters: userTeam.starters.map(...) is evaluated for a
\* matchup that is not upcoming; .map of undefined throws a TypeError
ProcessMatchupStarters(currYear, fetched) ==
    IF fetched.isNull
    THEN Returns(Report(currYear, "Error: Could not fetch starter data"))
    ELSE IF fetched.value.matchupStatus = "upcoming"
    THEN Returns(Report(currYear, "Upcoming matchup"))
    ELSE IF ~HasProperty(fetched.value.userTeam, "starters")
    THEN Throws("TypeError: Cannot read properties of undefined (reading 'map')")
    ELSE Returns(Report(currYear, fetched.value.matchupStatus))

\* processMatchupBench: userTeam.benchPlayers.map(...) likewise
ProcessMatchupBench(currYear, fetched) ==
    IF fetched.isNull
    THEN Returns(Report(currYear, "Error: Could not fetch bench data"))
    ELSE IF fetched.value.matchupStatus = "upcoming"
    THEN Returns(Report(currYear, "Upcoming matchup"))
    ELSE IF ~HasProperty(fetched.value.userTeam, "benchPlayers")
    THEN Throws("TypeError: Cannot read properties of undefined (reading 'map')")
    ELSE Returns(Report(currYear, fetched.value.matchupStatus))

RunProcessor(proc, currYear, fetched) ==
    CASE proc = "processMatchupStarters" -> ProcessMatchupStarters(currYear, fetched)
      [] proc = "processMatchupBench" -> ProcessMatchupBench(currYear, fetched)
      [] proc = "processMatchupDetails" -> ProcessMatchupDetails(currYear, fetched)
      [] proc = "processPlayoffHistory" -> ProcessPlayoffHistory(currYear, fetched)
      [] OTHER -> ProcessSettings(currYear, fetched)

-----------------------------------------------------------------------------
(* processLeagueDataByYear (index.ts:42-118) *)

\* the league histories a query may start from: a league id per season
LeagueIdUp(n) == n - FirstSeason + 1
LeagueIdDown(n) == FirstSeason + NumSeasons - n

HistoryEntry(id) ==
    [leagueId |-> id, leagueName |-> "league", leagueStatus |-> "complete"]

HistoryMaps ==
    {[s \in {ToString(n) : n \in S} |-> HistoryEntry(LeagueIdUp(ParseInt(s)))] :
         S \in (SUBSET SeasonInts) \ {{}}}
    \cup
    {[s \in {ToString(n) : n \in S} |-> HistoryEntry(LeagueIdDown(ParseInt(s)))] :
         S \in (SUBSET SeasonInts) \ {{}}}

\* the year expressions of the dispatch: absent, "Y", "A-B" and "A,B"
DispatchShapes ==
    {sh \in YearShapes :
        /\ sh.kind \in {"absent", "single", "range", "list"}
        /\ sh.pad = 0
        /\ Len(sh.toks) <= 2}

\* an order of dispatch that runs from the last season to the first
NextIndexFromEnd(results, toProcess) == Len(toProcess) - Len(results)

\* for (const currYear of yearsToProcess): the index of the next season
NextIndex(results, toProcess) == Len(results) + 1

\* leagueHistoryMap[currYear].leagueId
LeagueIdOfYear(map, currYear) == map[currYear].leagueId

\* a note that names only the first of the missing years
MissingYearsFirstOnly(requested, toProcess) ==
    LET missing == FilterSeq(requested, LAMBDA y : ~Includes(toProcess, y))
    IN  SubSeq(missing, 1, 1)

\* requestedYears.filter((y) => !yearsToProcess.includes(y))
MissingYears(requested, toProcess) ==
    FilterSeq(requested, LAMBDA y : ~Includes(toProcess, y))

InitDispatch ==
    /\ processor \in Processors
    /\ leagueHistoryMap \in {Null} \cup {Some(m) : m \in HistoryMaps}
    /\ yearShape \in DispatchShapes
    /\ year = Render(yearShape)
    /\ availableYears = <<>>
    /\ requestedYears = <<>>
    /\ yearsToProcess = <<>>
    /\ ypc = "idle"
    /\ dpc = "start"
    /\ calls = <<>>
    /\ resultsByYear = <<>>
    /\ toolResult = Null
    /\ ChainIdle
    /\ AnalysisIdle

\* fetchLeagueHistoryMap gave null: the error result of index.ts:52-62
HistoryNotFound ==
    /\ dpc = "start"
    /\ leagueHistoryMap.isNull
    /\ toolResult' = Some([isError |-> TRUE, results |-> <<>>, note |-> Null])
    /\ dpc' = "done"
    /\ UNCHANGED <<processor, leagueHistoryMap, calls, resultsByYear>>
    /\ UNCHANGED <<chainVars, yearVars, analysisVars>>

\* index.ts:64-84: the seasons are parsed; with nothing to process the
\* handler returns its error result, otherwise the loop is entered
ParseRequestedYears ==
    /\ dpc = "start"
    /\ ~leagueHistoryMap.isNull
    /\ LET r == ParseYearParameter(year, ObjectKeys(leagueHistoryMap.value))
       IN  /\ availableYears' = r.availableYears
           /\ requestedYears' = r.requestedYears
           /\ yearsToProcess' = r.yearsToProcess
           /\ IF Len(r.yearsToProcess) = 0
              THEN /\ toolResult' =
                         Some([isError |-> TRUE, results |-> <<>>, note |-> Null])
                   /\ dpc' = "done"
              ELSE /\ toolResult' = toolResult
                   /\ dpc' = "loop"
    /\ ypc' = "returned"
    /\ UNCHANGED <<yearShape, year>>
    /\ UNCHANGED <<processor, leagueHistoryMap, calls, resultsByYear>>
    /\ UNCHANGED <<chainVars, analysisVars>>

\* index.ts:88-95: the processor is called for the next season and awaited
InvokeProcessor ==
    /\ dpc = "loop"
    /\ Len(resultsByYear) < Len(yearsToProcess)
    /\ LET currYear == yearsToProcess[NextIndex(resultsByYear, yearsToProcess)]
       IN  calls' = Append(calls,
                 [username |-> "user", leagueName |-> "league",
                  currYear |-> currYear,
                  leagueId |-> LeagueIdOfYear(leagueHistoryMap.value, currYear)])
    /\ dpc' = "await"
    /\ UNCHANGED <<processor, leagueHistoryMap, resultsByYear, toolResult>>
    /\ UNCHANGED <<chainVars, yearVars, analysisVars>>

\* the awaited processor settles, however long it took: its result is pushed
\* (index.ts:97), or its exception rejects the handler, which catches nothing
ProcessorSettles ==
    /\ dpc = "await"
    /\ \E fetched \in FetchOutcomes(processor) :
          LET r == RunProcessor(processor, calls[Len(calls)].currYear, fetched)
          IN  IF r.threw
              THEN /\ dpc' = "rejected"
                   /\ resultsByYear' = resultsByYear
              ELSE /\ dpc' = "loop"
                   /\ resultsByYear' = Append(resultsByYear, r.value)
    /\ UNCHANGED <<processor, leagueHistoryMap, calls, toolResult>>
    /\ UNCHANGED <<chainVars, yearVars, analysisVars>>

\* index.ts:100-117: the results are joined in the order pushed and the note
\* about the missing years is added
AssembleOutput ==
    /\ dpc = "loop"
    /\ Len(resultsByYear) = Len(yearsToProcess)
    /\ toolResult' =
          Some([isError |-> FALSE,
                results |-> resultsByYear,
                note |-> IF Len(yearsToProcess) < Len(requestedYears)
                         THEN Some(MissingYears(requestedYears, yearsToProcess))
                         ELSE Null])
    /\ dpc' = "done"
    /\ UNCHANGED <<processor, leagueHistoryMap, calls, resultsByYear>>
    /\ UNCHANGED <<chainVars, yearVars, analysisVars>>

NextDispatch ==
    \/ HistoryNotFound
    \/ ParseRequestedYears
    \/ InvokeProcessor
    \/ ProcessorSettles
    \/ AssembleOutput

SpecDispatch == InitDispatch /\ [][NextDispatch]_vars

-----------------------------------------------------------------------------
(* Properties of the multi-year dispatch, under SpecDispatch *)

Assembled == dpc = "done" /\ ~toolResult.isNull /\ ~toolResult.value.isError

\* C9: the loop invokes the processor once for each season of yearsToProcess,
\* strictly in that order and with that season's league id from the history
\* map, never two at a time, and the assembled results are in the same order
\* however long an invocation takes.
C9_DispatchInOrder ==
    /\ Len(calls) <= Len(yearsToProcess)
    /\ Len(resultsByYear) <= Len(calls)
    /\ Len(calls) <= Len(resultsByYear) + 1
    /\ \A i \in 1..Len(calls) :
          /\ calls[i].currYear = yearsToProcess[i]
          /\ leagueHistoryMap.value[yearsToProcess[i]].leagueId = calls[i].leagueId
    /\ \A i \in 1..Len(resultsByYear) : resultsByYear[i].year = yearsToProcess[i]
    /\ Assembled =>
          /\ Len(calls) = Len(yearsToProcess)
          /\ toolResult.value.results = resultsByYear
          /\ Len(resultsByYear) = Len(yearsToProcess)

C9_Witness ==
    /\ Assembled
    /\ Len(yearsToProcess) >= 2
    /\ yearsToProcess[1] # yearsToProcess[2]
    /\ calls[1].leagueId # calls[2].leagueId
    /\ yearShape.kind = "list"

\* C10: every per-season processor returns a result for every outcome of its
\* upstream fetches and never throws, so a dispatch over N seasons always
\* ends with N results.
C10_NoSeasonCutsTheDispatchShort ==
    /\ dpc # "rejected"
    /\ (dpc = "done" /\ yearsToProcess # <<>>) =>
          Len(resultsByYear) = Len(yearsToProcess)

\* C11: in the report of a dispatch, the "No data found for year(s)" note
\* names every season that is in requestedYears and not in yearsToProcess, in
\* the order requested, and the note is absent exactly when no requested
\* season is missing; the handler ends before the loop, with its error result,
\* only when there is no season to process at all.
C11_MissingYearsAreNoted ==
    /\ Assembled =>
          LET missing == {y \in Range(requestedYears) :
                              y \notin Range(yearsToProcess)}
              note == toolResult.value.note
          IN  /\ note.isNull <=> missing = {}
              /\ ~note.isNull =>
                    /\ Range(note.value) = missing
                    /\ note.value =
                          SelectSeq(requestedYears, LAMBDA y : y \in missing)
    /\ (dpc = "done" /\ ~leagueHistoryMap.isNull /\ toolResult.value.isError) =>
          yearsToProcess = <<>>

C11_Witness ==
    /\ Assembled
    /\ ~toolResult.value.note.isNull
    /\ Len(toolResult.value.note.value) >= 2
    /\ Len(yearsToProcess) >= 2

-----------------------------------------------------------------------------
(* Specification SpecYear: parseYearParameter applied to every expression *)

InitYear ==
    /\ yearShape \in YearShapes
    /\ year = Render(yearShape)
    /\ availableYears \in AvailableYearArrays
    /\ requestedYears = <<>>
    /\ yearsToProcess = <<>>
    /\ ypc = "call"
    /\ ChainIdle
    /\ DispatchIdle
    /\ AnalysisIdle

ParseYear ==
    /\ ypc = "call"
    /\ LET r == ParseYearParameter(year, availableYears)
       IN  /\ requestedYears' = r.requestedYears
           /\ yearsToProcess' = r.yearsToProcess
           /\ availableYears' = r.availableYears
    /\ ypc' = "returned"
    /\ UNCHANGED <<yearShape, year, chainVars, dispatchVars, analysisVars>>

NextYear == ParseYear

SpecYear == InitYear /\ [][NextYear]_vars

-----------------------------------------------------------------------------
(* Properties of parseYearParameter, under SpecYear *)

Returned == ypc = "returned"
AvailableSet == Range(availableYears)

\* the seasons a to b, inclusive and ascending, as season labels
SeasonsFromTo(a, b) ==
    [i \in 1..(IF b >= a THEN b - a + 1 ELSE 0) |-> ToString(a + i - 1)]

\* the seasons of arr that the league has, in the order of arr
OnlyAvailable(arr) == SelectSeq(arr, LAMBDA y : y \in AvailableSet)

\* C4: for every expression "Y", "Y1-Y2", "Y1,Y2,Y3" and every set of available
\* seasons, every element of yearsToProcess is an element of requestedYears
\* and an element of availableYears.
C4_ToProcessWithinRequestedAndAvailable ==
    (Returned /\ yearShape.kind \in {"single", "range", "list"}) =>
        /\ Range(yearsToProcess) \subseteq Range(requestedYears)
        /\ Range(yearsToProcess) \subseteq AvailableSet

C4_Witness ==
    /\ Returned
    /\ yearShape.kind = "list"
    /\ yearShape.pad = 0
    /\ yearsToProcess # <<>>
    /\ Len(yearsToProcess) < Len(requestedYears)
    /\ Len(availableYears) >= 2

\* C5: for a range "A-B", requestedYears is every season from A to B inclusive
\* in ascending order, and yearsToProcess is that sequence filtered to the
\* available seasons, order kept.
C5_RangeIsInclusiveAscending ==
    (Returned /\ yearShape.kind = "range") =>
        /\ requestedYears = SeasonsFromTo(yearShape.toks[1], yearShape.toks[2])
        /\ yearsToProcess = OnlyAvailable(requestedYears)

C5_Witness ==
    /\ Returned
    /\ yearShape.kind = "range"
    /\ yearShape.pad = 2
    /\ Len(requestedYears) >= 3
    /\ Len(yearsToProcess) = 2

\* C6: for a list "A,B,C", with or without spaces around the tokens,
\* requestedYears is exactly the listed seasons in the given order and
\* yearsToProcess is that list without the unavailable seasons, order kept;
\* a single token gives requestedYears = [token] and yearsToProcess = [token]
\* iff the token is available.
C6_ListKeepsGivenOrder ==
    /\ (Returned /\ yearShape.kind = "list") =>
          /\ requestedYears = MapSeq(yearShape.toks, ToString)
          /\ yearsToProcess = OnlyAvailable(requestedYears)
    /\ (Returned /\ yearShape.kind = "single") =>
          /\ requestedYears = <<ToString(yearShape.toks[1])>>
          /\ yearsToProcess =
                IF ToString(yearShape.toks[1]) \in AvailableSet
                THEN <<ToString(yearShape.toks[1])>> ELSE <<>>

C6_Witness ==
    /\ Returned
    /\ yearShape.kind = "list"
    /\ yearShape.pad = 1
    /\ Len(requestedYears) = 3
    /\ Len(yearsToProcess) = 2
    /\ yearShape.toks[1] > yearShape.toks[2]

\* C7: with no year expression, yearsToProcess holds every available season
\* exactly once in strictly descending numeric order, requestedYears holds the
\* same set of seasons, and the caller's availableYears array is not reordered.
C7_AbsentMeansAllDescending ==
    (Returned /\ year = Undefined) =>
        \A S \in SUBSET SeasonInts :
            Range(availableYears) = {ToString(n) : n \in S} =>
                /\ Len(yearsToProcess) = Cardinality(S)
                /\ \A i \in 1..Len(yearsToProcess) :
                      yearsToProcess[i] =
                          ToString(AscendingSeq(S)[Cardinality(S) + 1 - i])
                /\ Range(requestedYears) = Range(availableYears)
                /\ availableYears = MapSeq(AscendingSeq(S), ToString)

C7_Witness ==
    /\ Returned
    /\ year = Undefined
    /\ Len(yearsToProcess) >= 3
    /\ ToString(9) \in AvailableSet
    /\ ToString(10) \in AvailableSet

\* C8: with no available season and a range or list expression,
\* yearsToProcess is empty while requestedYears still lists every nominally
\* requested year.
C8_NothingAvailableStillRequested ==
    (Returned /\ availableYears = <<>>) =>
        /\ yearShape.kind = "range" =>
              /\ yearsToProcess = <<>>
              /\ requestedYears =
                    SeasonsFromTo(yearShape.toks[1], yearShape.toks[2])
        /\ yearShape.kind = "list" =>
              /\ yearsToProcess = <<>>
              /\ requestedYears = MapSeq(yearShape.toks, ToString)

C8_Witness ==
    /\ Returned
    /\ availableYears = <<>>
    /\ yearShape.kind = "range"
    /\ Len(requestedYears) >= 2
    /\ yearsToProcess = <<>>

-----------------------------------------------------------------------------
(* fetchMatchup (api.ts:335-425) and getUserRosterId (helpers.ts) *)

RosterIds == 1..MaxRosters
Weeks == 1..MaxWeek
\* matchup_id of an entry that is in no matchup of the week (null)
NoMatchupId == 0
MatchupIds == {1, 2}

\* the user the query is about, and the owner of every other roster
QueryUserId == "user"
OtherUserId == "other"

\* seasons as the API writes them: four-digit years, across 2009 -> 2010
MatchupYears == {ToString(2000 + n) : n \in FirstSeason..(FirstSeason + 2)}

\* the UTF-16 code unit of a digit character
CharCode(c) == 48 + DigitVal(c)

\* a < b on two strings: the first differing code unit decides, and a proper
\* prefix is smaller
RECURSIVE StrLess(_, _)
StrLess(a, b) ==
    IF b = <<>> THEN FALSE
    ELSE IF a = <<>> THEN TRUE
    ELSE IF Head(a) = Head(b) THEN StrLess(Tail(a), Tail(b))
    ELSE CharCode(Head(a)) < CharCode(Head(b))

\* Array.prototype.find: the first element that satisfies P, or undefined
Find(arr, P(_)) ==
    IF \E i \in 1..Len(arr) : P(arr[i])
    THEN Some(arr[CHOOSE i \in 1..Len(arr) :
                      P(arr[i]) /\ \A j \in 1..(i - 1) : ~P(arr[j])])
    ELSE Null

\* an entry of GET /league/<id>/matchups/<week>
Matchup(rosterId, matchupId) == [roster_id |-> rosterId, matchup_id |-> matchupId]

\* the arrays the matchups request may answer with: an entry for some of the
\* rosters, in the order of their roster ids
MatchupArrays ==
    UNION {{[i \in 1..Cardinality(S) |->
                Matchup(AscendingSeq(S)[i], f[AscendingSeq(S)[i]])] :
               f \in [S -> MatchupIds \cup {NoMatchupId}]} :
           S \in SUBSET RosterIds}

\* a roster of GET /league/<id>/rosters: owned by the user, co-owned by the
\* user, or somebody else's (co_owners is then absent)
RosterKinds == {"owned", "coowned", "other"}
Roster(rosterId, kind) ==
    [roster_id |-> rosterId,
     owner_id |-> IF kind = "owned" THEN QueryUserId ELSE OtherUserId,
     co_owners |-> IF kind = "coowned" THEN Some(<<QueryUserId>>) ELSE Null]

\* the username GET /user/<id> answers with
Username(id) == <<"name of", id>>

\* fetchLeagueRosters, api.ts:266-282: the roster with the ids and the names
\* of its owner and co-owners
EnhancedRoster(roster) ==
    LET owners == <<roster.owner_id>> \o
                  (IF roster.co_owners.isNull THEN <<>> ELSE roster.co_owners.value)
    IN  [roster_id |-> roster.roster_id,
         owner_id |-> roster.owner_id,
         co_owners |-> roster.co_owners,
         ownerNames |-> MapSeq(owners, Username),
         ownerIds |-> owners]

\* the non-empty arrays fetchLeagueRosters may resolve to: the rosters of the
\* league in the order of their ids, all of them or all but the last
RosterArrays ==
    UNION {{[i \in 1..n |-> EnhancedRoster(Roster(i, k[i]))] :
               k \in [1..n -> RosterKinds]} :
           n \in {MaxRosters - 1, MaxRosters}}

\* getUserRosterId: the id of the first roster the user owns or co-owns
GetUserRosterId(id, rs) ==
    LET rosterMatch ==
            Find(rs, LAMBDA roster :
                         \/ roster.owner_id = id
                         \/ /\ ~roster.co_owners.isNull
                            /\ Includes(roster.co_owners.value, id))
    IN  IF rosterMatch.isNull THEN Null ELSE Some(rosterMatch.value.roster_id)

\* an opponent lookup that falls back on the user's own entry
FindOpponentOrSelf(matchups, own) ==
    LET other == Find(matchups, LAMBDA matchup :
                          /\ matchup.matchup_id = own.matchup_id
                          /\ matchup.roster_id # own.roster_id)
    IN  IF other.isNull THEN Some(own) ELSE other

\* an opponent lookup that reads the week's entries from the end
FindOpponentLast(matchups, own) ==
    Find([i \in 1..Len(matchups) |-> matchups[Len(matchups) + 1 - i]],
         LAMBDA matchup :
             /\ matchup.matchup_id = own.matchup_id
             /\ matchup.roster_id # own.roster_id)

\* api.ts:356-360: the first other entry with the matchup id of the user's
FindOpponent(matchups, own) ==
    Find(matchups, LAMBDA matchup :
             /\ matchup.matchup_id = own.matchup_id
             /\ matchup.roster_id # own.roster_id)

\* api.ts:348-368: the five lookups, each made only when the ones before it
\* have hit, and whether fetchMatchup returns null at one of them
Lookups(matchups, rs, id) ==
    LET rosterId == GetUserRosterId(id, rs)
    IN  IF rosterId.isNull
        THEN [missed |-> TRUE, userRoster |-> Null, opponentRoster |-> Null,
              userEnhancedRoster |-> Null, opponentEnhancedRoster |-> Null]
        ELSE
    LET own == Find(matchups, LAMBDA matchup : matchup.roster_id = rosterId.value)
    IN  IF own.isNull
        THEN [missed |-> TRUE, userRoster |-> Null, opponentRoster |-> Null,
              userEnhancedRoster |-> Null, opponentEnhancedRoster |-> Null]
        ELSE
    LET opponent == FindOpponent(matchups, own.value)
    IN  IF opponent.isNull
        THEN [missed |-> TRUE, userRoster |-> own, opponentRoster |-> Null,
              userEnhancedRoster |-> Null, opponentEnhancedRoster |-> Null]
        ELSE
    LET userEnhanced == Find(rs, LAMBDA r : r.roster_id = rosterId.value)
        opponentEnhanced ==
            Find(rs, LAMBDA r : r.roster_id = opponent.value.roster_id)
    IN  [missed |-> userEnhanced.isNull \/ opponentEnhanced.isNull,
         userRoster |-> own, opponentRoster |-> opponent,
         userEnhancedRoster |-> userEnhanced,
         opponentEnhancedRoster |-> opponentEnhanced]

\* a derivation that counts the current week as played
MatchupStatusWeekPlayed(yr, wk, currentSeason, currentWeek) ==
    IF StrLess(yr, currentSeason) THEN "completed"
    ELSE IF StrLess(currentSeason, yr) THEN "upcoming"
    ELSE IF wk <= currentWeek THEN "completed"
    ELSE "upcoming"

\* api.ts:377-399
MatchupStatus(yr, wk, currentSeason, currentWeek) ==
    IF StrLess(yr, currentSeason) THEN "completed"
    ELSE IF StrLess(currentSeason, yr) THEN "upcoming"
    ELSE IF wk < currentWeek THEN "completed"
    ELSE IF wk = currentWeek THEN "in_progress"
    ELSE "upcoming"

\* enhanceMatchupWithPlayerDetails, helpers.ts:826-833, of an entry without
\* players
EnhancedMatchup(matchup) ==
    [roster_id |-> matchup.roster_id, matchup_id |-> matchup.matchup_id,
     starters |-> <<>>, bench |-> <<>>]

\* the states fetchNFLState may resolve to
NFLStates ==
    {[currentWeek |-> w, currentSeason |-> s] : w \in Weeks, s \in MatchupYears}

\* everything but the state of fetchMatchup
notMatchupVars == <<chainVars, yearVars, dispatchVars, lineupVars, bracketVars,
                    headToHeadVars,
                    enhanceVars,
                    playoffHistoryVars,
                    seasonVars,
                    identityVars>>

InitMatchup ==
    /\ mpc = "fetchMatchups"
    /\ week \in Weeks
    /\ matchupYear \in MatchupYears
    /\ allMatchups = Null
    /\ rosters = Null
    /\ userRoster = Null
    /\ opponentRoster = Null
    /\ userOwners = <<>>
    /\ opponentOwners = <<>>
    /\ nflState = Null
    /\ matchupStatus = Null
    /\ matchupDetails = Null
    /\ ChainIdle
    /\ YearIdle
    /\ DispatchIdle
    /\ LineupIdle
    /\ BracketIdle
    /\ HeadToHeadIdle
    /\ EnhanceIdle
    /\ PlayoffHistoryIdle
    /\ SeasonIdle
    /\ IdentityIdle

\* api.ts:342-343: the matchups request fails
MatchupsRequestFails ==
    /\ mpc = "fetchMatchups"
    /\ matchupDetails' = Null
    /\ mpc' = "done"
    /\ UNCHANGED <<week, matchupYear, allMatchups, rosters, userRoster,
                   opponentRoster, userOwners, opponentOwners, nflState,
                   matchupStatus>>
    /\ UNCHANGED notMatchupVars

\* api.ts:342-345: the week's entries arrive and the rosters are asked for
MatchupsFetched ==
    /\ mpc = "fetchMatchups"
    /\ \E matchups \in MatchupArrays : allMatchups' = Some(matchups)
    /\ mpc' = "fetchRosters"
    /\ UNCHANGED <<week, matchupYear, rosters, userRoster, opponentRoster,
                   userOwners, opponentOwners, nflState, matchupStatus,
                   matchupDetails>>
    /\ UNCHANGED notMatchupVars

\* api.ts:345-346: fetchLeagueRosters resolves to null (the request failed or
\* the league has no roster)
RostersRequestFails ==
    /\ mpc = "fetchRosters"
    /\ matchupDetails' = Null
    /\ mpc' = "done"
    /\ UNCHANGED <<week, matchupYear, allMatchups, rosters, userRoster,
                   opponentRoster, userOwners, opponentOwners, nflState,
                   matchupStatus>>
    /\ UNCHANGED notMatchupVars

\* api.ts:348-371: the rosters arrive; the user's roster id, the user's
\* entry, the opponent's entry and the two enhanced rosters are looked up,
\* and null is returned at the first miss
RostersFetched ==
    /\ mpc = "fetchRosters"
    /\ \E rs \in RosterArrays :
          LET l == Lookups(allMatchups.value, rs, QueryUserId)
          IN  /\ rosters' = Some(rs)
              /\ userRoster' = l.userRoster
              /\ opponentRoster' = l.opponentRoster
              /\ IF l.missed
                 THEN /\ mpc' = "done"
                      /\ UNCHANGED <<userOwners, opponentOwners>>
                 ELSE /\ mpc' = "lookedUp"
                      /\ userOwners' = l.userEnhancedRoster.value.ownerNames
                      /\ opponentOwners' =
                            l.opponentEnhancedRoster.value.ownerNames
    /\ matchupDetails' = Null
    /\ UNCHANGED <<week, matchupYear, allMatchups, nflState, matchupStatus>>
    /\ UNCHANGED notMatchupVars

\* api.ts:373: fetchNFLState is called. The two arrays are not read after
\* api.ts:368 and are not kept from here on.
NFLStateRequested ==
    /\ mpc = "lookedUp"
    /\ mpc' = "fetchNFLState"
    /\ allMatchups' = Null
    /\ rosters' = Null
    /\ UNCHANGED <<week, matchupYear, userRoster, opponentRoster, userOwners,
                   opponentOwners, nflState, matchupStatus, matchupDetails>>
    /\ UNCHANGED notMatchupVars

\* api.ts:373-374: fetchNFLState resolves to null
NFLStateRequestFails ==
    /\ mpc = "fetchNFLState"
    /\ matchupDetails' = Null
    /\ mpc' = "done"
    /\ UNCHANGED <<week, matchupYear, allMatchups, rosters, userRoster,
                   opponentRoster, userOwners, opponentOwners, nflState,
                   matchupStatus>>
    /\ UNCHANGED notMatchupVars

\* api.ts:373-401: the NFL state arrives, the status is derived and the
\* roster positions are asked for
NFLStateFetched ==
    /\ mpc = "fetchNFLState"
    /\ \E state \in NFLStates :
          /\ nflState' = Some(state)
          /\ matchupStatus' = Some(MatchupStatus(matchupYear, week,
                                    state.currentSeason, state.currentWeek))
    /\ mpc' = "fetchRosterPositions"
    /\ UNCHANGED <<week, matchupYear, allMatchups, rosters, userRoster,
                   opponentRoster, userOwners, opponentOwners, matchupDetails>>
    /\ UNCHANGED notMatchupVars

\* api.ts:401-405: fetchLeagueRosterPositions resolves to null, or the player
\* file does not exist
RosterPositionsOrPlayersMissing ==
    /\ mpc = "fetchRosterPositions"
    /\ matchupDetails' = Null
    /\ mpc' = "done"
    /\ UNCHANGED <<week, matchupYear, allMatchups, rosters, userRoster,
                   opponentRoster, userOwners, opponentOwners, nflState,
                   matchupStatus>>
    /\ UNCHANGED notMatchupVars

\* api.ts:401-424: the MatchupDetails are assembled and returned
MatchupAssembled ==
    /\ mpc = "fetchRosterPositions"
    /\ matchupDetails' =
          Some([userRoster |-> EnhancedMatchup(userRoster.value),
                opponentRoster |-> EnhancedMatchup(opponentRoster.value),
                userOwners |-> userOwners,
                opponentOwners |-> opponentOwners,
                matchupStatus |-> matchupStatus.value])
    /\ mpc' = "done"
    /\ UNCHANGED <<week, matchupYear, allMatchups, rosters, userRoster,
                   opponentRoster, userOwners, opponentOwners, nflState,
                   matchupStatus>>
    /\ UNCHANGED notMatchupVars

NextMatchup ==
    \/ MatchupsRequestFails
    \/ MatchupsFetched
    \/ RostersRequestFails
    \/ RostersFetched
    \/ NFLStateRequested
    \/ NFLStateRequestFails
    \/ NFLStateFetched
    \/ RosterPositionsOrPlayersMissing
    \/ MatchupAssembled

SpecMatchup == InitMatchup /\ [][NextMatchup]_vars

-----------------------------------------------------------------------------
(* Properties of fetchMatchup, under SpecMatchup *)

\* the status the calendar gives: seasons and weeks compared as numbers
CalendarStatus(season, wk, currentSeason, currentWeek) ==
    IF season < currentSeason THEN "completed"
    ELSE IF season > currentSeason THEN "upcoming"
    ELSE IF wk < currentWeek THEN "completed"
    ELSE IF wk = currentWeek THEN "in_progress"
    ELSE "upcoming"

\* C12: the matchup status is a function of the requested season and week and
\* the current NFL season and week only: an earlier season is completed and a
\* later season upcoming whatever the week; in the current season an earlier
\* week is completed, the current week in_progress and a later week upcoming;
\* a returned MatchupDetails carries that status.
C12_StatusFollowsTheCalendar ==
    /\ ~matchupStatus.isNull =>
          /\ ~nflState.isNull
          /\ matchupStatus.value =
                CalendarStatus(ParseInt(matchupYear), week,
                               ParseInt(nflState.value.currentSeason),
                               nflState.value.currentWeek)
    /\ ~matchupDetails.isNull =>
          /\ ~matchupStatus.isNull
          /\ matchupDetails.value.matchupStatus = matchupStatus.value

C12_Witness ==
    /\ mpc = "done"
    /\ ~matchupDetails.isNull
    /\ ParseInt(matchupYear) < ParseInt(nflState.value.currentSeason)
    /\ week > nflState.value.currentWeek
    /\ matchupDetails.value.matchupStatus = "completed"

\* the positions in rs of the rosters that id owns or co-owns
OwnedBy(id, rs) ==
    {i \in 1..Len(rs) :
        \/ rs[i].owner_id = id
        \/ (~rs[i].co_owners.isNull /\ id \in Range(rs[i].co_owners.value))}

\* the smallest element of a non-empty set of positions
First(S) == CHOOSE i \in S : \A j \in S : i <= j

\* the entries of ms for roster rid, and the entries that share the matchup
\* id of entry e and belong to another roster
EntriesOf(rid, ms) == {i \in 1..Len(ms) : ms[i].roster_id = rid}
OtherSide(e, ms) ==
    {i \in 1..Len(ms) :
        ms[i].matchup_id = e.matchup_id /\ ms[i].roster_id # e.roster_id}

\* some lookup of fetchMatchup misses on the entries ms and the rosters rs
LookupMisses(id, ms, rs) ==
    \/ OwnedBy(id, rs) = {}
    \/ EntriesOf(rs[First(OwnedBy(id, rs))].roster_id, ms) = {}
    \/ OtherSide(ms[First(EntriesOf(rs[First(OwnedBy(id, rs))].roster_id, ms))],
                 ms) = {}

\* C13: fetchMatchup returns null whenever the week's entries, the league
\* rosters, the roster the user owns or co-owns, that roster's entry or another
\* entry with its matchup id is missing, and goes on only with both entries in
\* hand; a non-null result carries both userRoster and opponentRoster.
C13_NoOneSidedMatchup ==
    /\ (~allMatchups.isNull /\ ~rosters.isNull
           /\ LookupMisses(QueryUserId, allMatchups.value, rosters.value)) =>
          (mpc = "done" /\ matchupDetails.isNull)
    /\ (mpc = "done" /\ (userRoster.isNull \/ opponentRoster.isNull)) =>
          matchupDetails.isNull
    /\ mpc \in {"lookedUp", "fetchNFLState", "fetchRosterPositions"} =>
          (~userRoster.isNull /\ ~opponentRoster.isNull)
    /\ ~matchupDetails.isNull =>
          /\ ~userRoster.isNull
          /\ ~opponentRoster.isNull
          /\ matchupDetails.value.userRoster.roster_id =
                userRoster.value.roster_id
          /\ matchupDetails.value.opponentRoster.roster_id =
                opponentRoster.value.roster_id
          /\ matchupDetails.value.userRoster.roster_id #
                matchupDetails.value.opponentRoster.roster_id

C13_Witness ==
    /\ mpc = "done"
    /\ ~allMatchups.isNull
    /\ ~rosters.isNull
    /\ Len(allMatchups.value) >= 2
    /\ ~userRoster.isNull
    /\ opponentRoster.isNull
    /\ rosters.value[First(OwnedBy(QueryUserId, rosters.value))].owner_id
          = OtherUserId
    /\ matchupDetails.isNull

\* ownerNames of the roster with id rid among rs
OwnerNamesOf(rid, rs) ==
    rs[CHOOSE i \in 1..Len(rs) : rs[i].roster_id = rid].ownerNames

\* C30: in fetchMatchup the opponent's entry belongs to another roster than
\* the user's and has the same matchup id; it is the first such entry of the
\* upstream list; the owner names are those of these two rosters; a non-null
\* result carries exactly these two entries and these names.
C30_OpponentIsTheFirstOtherEntry ==
    /\ mpc = "lookedUp" =>
          LET ms == allMatchups.value
              rs == rosters.value
              u == userRoster.value
              o == opponentRoster.value
          IN  /\ o.roster_id # u.roster_id
              /\ o.matchup_id = u.matchup_id
              /\ u = ms[First(EntriesOf(rs[First(OwnedBy(QueryUserId, rs))].roster_id, ms))]
              /\ o = ms[First(OtherSide(u, ms))]
              /\ userOwners = OwnerNamesOf(u.roster_id, rs)
              /\ opponentOwners = OwnerNamesOf(o.roster_id, rs)
    /\ ~matchupDetails.isNull =>
          LET d == matchupDetails.value
          IN  /\ d.userRoster.roster_id = userRoster.value.roster_id
              /\ d.opponentRoster.roster_id = opponentRoster.value.roster_id
              /\ d.userRoster.roster_id # d.opponentRoster.roster_id
              /\ d.userRoster.matchup_id = d.opponentRoster.matchup_id
              /\ d.userOwners = userOwners
              /\ d.opponentOwners = opponentOwners

\* the user's entry is the second of three that share a matchup id
C30_Witness ==
    /\ mpc = "lookedUp"
    /\ Len(allMatchups.value) = 3
    /\ userRoster.value = allMatchups.value[2]
    /\ OtherSide(userRoster.value, allMatchups.value) = {1, 3}
    /\ opponentRoster.value = allMatchups.value[1]
    /\ Len(userOwners) = 2
    /\ Len(opponentOwners) = 1

-----------------------------------------------------------------------------
(* fetchBenchVsStarterAnalysis and analyzeLineup (api.ts:565-653) *)

PlayerPoints == 0..MaxPoints
\* the number of starters, and of bench players, of a side
LineupSizes == {0, 1, 2}

\* a MatchupPlayerDetail: who the player is and what he scored
Player(id, pts) == [playerId |-> id, points |-> pts]

\* the players of one group of a side, in the order upstream lists them
PlayerLists(group) ==
    UNION {{[i \in 1..n |-> Player(<<group, i>>, pts[i])] :
               pts \in [1..n -> PlayerPoints]} :
           n \in LineupSizes}

RECURSIVE SumPoints(_)
SumPoints(players) ==
    IF players = <<>> THEN 0 ELSE Head(players).points + SumPoints(Tail(players))

\* an EnhancedMatchup: the side's score is the score of its starters
Side(startersOfSide, benchOfSide) ==
    [points |-> SumPoints(startersOfSide),
     starters |-> startersOfSide,
     bench |-> benchOfSide]

Sides == {Side(st, bn) : st \in PlayerLists("starter"), bn \in PlayerLists("bench")}

\* starters.sort((a, b) => a.points - b.points): a stable sort, by insertion
RECURSIVE InsertAscending(_, _)
InsertAscending(sorted, x) ==
    IF sorted = <<>> THEN <<x>>
    ELSE IF Head(sorted).points - x.points <= 0
         THEN <<Head(sorted)>> \o InsertAscending(Tail(sorted), x)
         ELSE <<x>> \o sorted

RECURSIVE SortAscending(_)
SortAscending(arr) ==
    IF arr = <<>> THEN <<>>
    ELSE InsertAscending(SortAscending(SubSeq(arr, 1, Len(arr) - 1)), arr[Len(arr)])

\* bench.sort((a, b) => b.points - a.points)
RECURSIVE InsertDescending(_, _)
InsertDescending(sorted, x) ==
    IF sorted = <<>> THEN <<x>>
    ELSE IF x.points - Head(sorted).points <= 0
         THEN <<Head(sorted)>> \o InsertDescending(Tail(sorted), x)
         ELSE <<x>> \o sorted

RECURSIVE SortDescending(_)
SortDescending(arr) ==
    IF arr = <<>> THEN <<>>
    ELSE InsertDescending(SortDescending(SubSeq(arr, 1, Len(arr) - 1)),
                          arr[Len(arr)])

\* a filter that also keeps the bench players level with the worst starter
OutperformingOrLevel(benchOfSide, worstStarter) ==
    FilterSeq(benchOfSide, LAMBDA b : b.points >= worstStarter.points)

\* bench.filter((bench) => bench.points > worstStarter.points)
OutperformingBench(benchOfSide, worstStarter) ==
    FilterSeq(benchOfSide, LAMBDA b : b.points > worstStarter.points)

\* a sum of the points of the outperforming players themselves
RECURSIVE MissedPointsUndiminished(_, _)
MissedPointsUndiminished(outperforming, worstStarter) ==
    IF outperforming = <<>> THEN 0
    ELSE Head(outperforming).points
         + MissedPointsUndiminished(Tail(outperforming), worstStarter)

\* outperformingBench.reduce((total, player) =>
\*     total + (player.points - worstStarter.points), 0)
RECURSIVE MissedPoints(_, _)
MissedPoints(outperforming, worstStarter) ==
    IF outperforming = <<>> THEN 0
    ELSE (Head(outperforming).points - worstStarter.points)
         + MissedPoints(Tail(outperforming), worstStarter)

\* analyzeLineup, api.ts:587-618. Both arrays of the side are sorted in place
\* and returned. With no starter, worstStarter is undefined: the filter reads
\* worstStarter.points for the first bench player, which throws a TypeError,
\* and with no bench player either nothing is read.
AnalyzeLineup(side) ==
    LET sortedStarters == SortAscending(side.starters)
        sortedBench == SortDescending(side.bench)
    IN  IF sortedStarters = <<>> /\ sortedBench # <<>>
        THEN [threw |-> TRUE, starters |-> sortedStarters, bench |-> sortedBench,
              worstStarter |-> Null, outperformingBench |-> <<>>,
              missedPoints |-> 0, optimalChoices |-> FALSE]
        ELSE IF sortedStarters = <<>>
        THEN [threw |-> FALSE, starters |-> sortedStarters, bench |-> sortedBench,
              worstStarter |-> Null, outperformingBench |-> <<>>,
              missedPoints |-> 0, optimalChoices |-> TRUE]
        ELSE
    LET worstStarter == sortedStarters[1]
        outperforming == OutperformingBench(sortedBench, worstStarter)
    IN  [threw |-> FALSE, starters |-> sortedStarters, bench |-> sortedBench,
         worstStarter |-> Some(worstStarter),
         outperformingBench |-> outperforming,
         missedPoints |-> MissedPoints(outperforming, worstStarter),
         optimalChoices |-> Len(outperforming) = 0]

\* a flag that only looks at the games the user lost
CouldHaveWon(userPoints, opponentPoints, userMissedPoints) ==
    userPoints < opponentPoints /\ userPoints + userMissedPoints > opponentPoints

\* api.ts:644-650
CouldHaveChangedOutcome(userPoints, opponentPoints, userMissedPoints) ==
    \/ (userPoints < opponentPoints
           /\ userPoints + userMissedPoints > opponentPoints)
    \/ (userPoints > opponentPoints
           /\ userPoints - userMissedPoints < opponentPoints)

\* everything but the state of fetchBenchVsStarterAnalysis
notLineupVars == <<chainVars, yearVars, dispatchVars, matchupVars, bracketVars,
                   headToHeadVars,
                    enhanceVars,
                    playoffHistoryVars,
                    seasonVars,
                    identityVars>>

InitLineup ==
    /\ lpc = "fetchMatchup"
    /\ lineupDetails = Null
    /\ lineupAnalysis = Null
    /\ lineupThrew = FALSE
    /\ ChainIdle
    /\ YearIdle
    /\ DispatchIdle
    /\ MatchupIdle
    /\ BracketIdle
    /\ HeadToHeadIdle
    /\ EnhanceIdle
    /\ PlayoffHistoryIdle
    /\ SeasonIdle
    /\ IdentityIdle

\* api.ts:571-577: fetchMatchup resolves to null
LineupMatchupMissing ==
    /\ lpc = "fetchMatchup"
    /\ lpc' = "done"
    /\ UNCHANGED <<lineupDetails, lineupAnalysis, lineupThrew>>
    /\ UNCHANGED notLineupVars

\* api.ts:571-585: fetchMatchup resolves to the details of the two sides
LineupMatchupResolved ==
    /\ lpc = "fetchMatchup"
    /\ \E userSide \in Sides, opponentSide \in Sides :
          lineupDetails' = Some([userRoster |-> userSide,
                                 opponentRoster |-> opponentSide])
    /\ lpc' = "analyze"
    /\ UNCHANGED <<lineupAnalysis, lineupThrew>>
    /\ UNCHANGED notLineupVars

\* api.ts:620-652: the user's side and then the opponent's are analysed, each
\* sorted in place, and the summary is put together; an exception of
\* analyzeLineup ends the function
AnalyzeBothLineups ==
    /\ lpc = "analyze"
    /\ LET userSide == lineupDetails.value.userRoster
           opponentSide == lineupDetails.value.opponentRoster
           userAnalysis == AnalyzeLineup(userSide)
           opponentAnalysis == AnalyzeLineup(opponentSide)
       IN  IF userAnalysis.threw
           THEN /\ lineupThrew' = TRUE
                /\ lineupAnalysis' = Null
                /\ lineupDetails' =
                      Some([userRoster |->
                                [userSide EXCEPT !.starters = userAnalysis.starters,
                                                 !.bench = userAnalysis.bench],
                            opponentRoster |-> opponentSide])
           ELSE /\ lineupDetails' =
                      Some([userRoster |->
                                [userSide EXCEPT !.starters = userAnalysis.starters,
                                                 !.bench = userAnalysis.bench],
                            opponentRoster |->
                                [opponentSide EXCEPT
                                     !.starters = opponentAnalysis.starters,
                                     !.bench = opponentAnalysis.bench]])
                /\ IF opponentAnalysis.threw
                   THEN /\ lineupThrew' = TRUE
                        /\ lineupAnalysis' = Null
                   ELSE /\ lineupThrew' = FALSE
                        /\ lineupAnalysis' =
                              Some([userTeam |-> userAnalysis,
                                    opponentTeam |-> opponentAnalysis,
                                    userPoints |-> userSide.points,
                                    opponentPoints |-> opponentSide.points,
                                    couldHaveChangedOutcome |->
                                        CouldHaveChangedOutcome(
                                            userSide.points, opponentSide.points,
                                            userAnalysis.missedPoints)])
    /\ lpc' = "done"
    /\ UNCHANGED notLineupVars

NextLineup ==
    \/ LineupMatchupMissing
    \/ LineupMatchupResolved
    \/ AnalyzeBothLineups

SpecLineup == InitLineup /\ [][NextLineup]_vars

-----------------------------------------------------------------------------
(* Properties of the lineup analysis, under SpecLineup *)

LineupReturned == lpc = "done" /\ ~lineupAnalysis.isNull

\* the points of the lowest-scoring starter of a side that has a starter
LowestStarterPoints(side) ==
    CHOOSE p \in {side.starters[i].points : i \in 1..Len(side.starters)} :
        \A i \in 1..Len(side.starters) : p <= side.starters[i].points

\* the positions of the bench players who scored more than the lowest starter
Outscoring(side) ==
    {i \in 1..Len(side.bench) :
        side.starters # <<>> /\ side.bench[i].points > LowestStarterPoints(side)}

\* the sum, over the positions S of the bench, of the points above base
RECURSIVE PointsAbove(_, _, _)
PointsAbove(S, benchOfSide, base) ==
    IF S = {} THEN 0
    ELSE LET i == CHOOSE j \in S : TRUE
         IN  (benchOfSide[i].points - base) + PointsAbove(S \ {i}, benchOfSide, base)

OptimalChoicesAsStated(analysis, side) ==
    /\ analysis.optimalChoices <=> analysis.outperformingBench = <<>>
    /\ analysis.optimalChoices <=> Outscoring(side) = {}
    /\ side.starters # <<>> =>
          analysis.worstStarter.value.points = LowestStarterPoints(side)
    /\ (\E i \in 1..Len(side.bench) : \A j \in 1..Len(side.starters) :
            side.bench[i].points > side.starters[j].points)
          => ~analysis.optimalChoices

MissedPointsAsStated(analysis, side) ==
    /\ side.starters # <<>> =>
          analysis.missedPoints =
              PointsAbove(Outscoring(side), side.bench, LowestStarterPoints(side))
    /\ analysis.optimalChoices => analysis.missedPoints = 0
    /\ ~analysis.optimalChoices => analysis.missedPoints > 0

C16_CouldHaveChangedOutcome ==
    LineupReturned =>
        LET user == lineupDetails.value.userRoster.points
            opponent == lineupDetails.value.opponentRoster.points
            missed == lineupAnalysis.value.userTeam.missedPoints
            flag == lineupAnalysis.value.couldHaveChangedOutcome
        IN  /\ flag <=> \/ (user < opponent /\ user + missed > opponent)
                        \/ (user > opponent /\ user - missed < opponent)
            /\ user = opponent => ~flag
            /\ missed = 0 => ~flag

C16_Witness ==
    /\ LineupReturned
    /\ lineupAnalysis.value.couldHaveChangedOutcome
    /\ lineupDetails.value.userRoster.points
          > lineupDetails.value.opponentRoster.points
    /\ lineupDetails.value.opponentRoster.points > 0

\* C24: analyzeLineup is a pure function of its side: analysing a matchup
\* leaves the order of the starters and of the bench inside the two sides of
\* the MatchupDetails as it was.
C24_AnalysisLeavesTheSidesAlone ==
    [][lpc = "analyze" => lineupDetails' = lineupDetails]_vars

-----------------------------------------------------------------------------
(* buildBracket, formatMatchup (helpers.ts), fetchLeaguePlayoffBracket       *)
(* (api.ts:985-1016) and processPlayoffBracket (processors.ts:583-625)       *)

\* a roster id, a placement and a game id that are absent (null or undefined)
NoRoster == 0
NoPlace == 0
NoGame == 0

Rounds == {1, 2}
\* p: the place a game decides (1: the final, 3: the game for third place)
Places == {NoPlace, 1, 3}
\* the number of edges of a bracket
BracketSizes == {0, 1, 2}

\* t1_from and t2_from of an edge, each absent or {w: game} or {l: game}
AdvancementFrom(w, l) == Some([w |-> w, l |-> l])
Advancements ==
    {[t1_from |-> Null, t2_from |-> Null],
     [t1_from |-> AdvancementFrom(1, NoGame), t2_from |-> Null],
     [t1_from |-> AdvancementFrom(1, NoGame),
      t2_from |-> AdvancementFrom(2, NoGame)],
     [t1_from |-> Null, t2_from |-> AdvancementFrom(2, NoGame)],
     [t1_from |-> AdvancementFrom(NoGame, 1), t2_from |-> Null]}

\* the two team slots of an edge: both seeded, the first open, both open
TeamSlots ==
    {[t1 |-> 1, t2 |-> 2], [t1 |-> NoRoster, t2 |-> 2],
     [t1 |-> NoRoster, t2 |-> NoRoster]}

\* a PlayoffMatchup with match id m
PlayoffMatchup(r, m, teams, w, p, from) ==
    [r |-> r, m |-> m, t1 |-> teams.t1, t2 |-> teams.t2,
     w |-> w, l |-> IF w = NoRoster THEN NoRoster ELSE 2,
     p |-> p, t1_from |-> from.t1_from, t2_from |-> from.t2_from]

\* the edges an upstream bracket may hold at position m
PlayoffMatchups(m) ==
    {PlayoffMatchup(r, m, teams, w, p, from) :
        r \in Rounds, teams \in TeamSlots, w \in {NoRoster, 1},
        p \in Places, from \in Advancements}

\* the arrays GET /league/<id>/winners_bracket may answer with
BracketArrays ==
    UNION {{bd \in [1..n -> UNION {PlayoffMatchups(m) : m \in 1..n}] :
               \A m \in 1..n : bd[m].m = m} :
           n \in BracketSizes}

\* the rosters of the league, every one somebody's
LeagueRosters == [i \in 1..MaxRosters |-> EnhancedRoster(Roster(i, "other"))]

\* rosterMap.get(id): the identity recorded for the roster, or undefined
RosterMapGet(rs, id) ==
    LET found == Find(rs, LAMBDA roster : roster.roster_id = id)
    IN  IF found.isNull THEN Null
        ELSE Some([rosterId |-> found.value.roster_id,
                   ownerNames |-> found.value.ownerNames,
                   ownerIds |-> found.value.ownerIds])

\* fromInfo.w and fromInfo.l as conditions
AdvancesWinner(from) == ~from.isNull /\ from.value.w # NoGame
AdvancesLoser(from) == ~from.isNull /\ from.value.l # NoGame

\* a filter that keeps the edges fed by winners whatever place they decide
OnChampionshipPathAnyPlace(matchup) ==
    \/ matchup.r = 1
    \/ matchup.p = 1
    \/ AdvancesWinner(matchup.t1_from)
    \/ AdvancesWinner(matchup.t2_from)

\* helpers.ts:850-855
OnChampionshipPath(matchup) ==
    \/ matchup.r = 1
    \/ matchup.p = 1
    \/ /\ matchup.p = NoPlace
       /\ (AdvancesWinner(matchup.t1_from) \/ AdvancesWinner(matchup.t2_from))

\* a node that counts as completed once both of its teams are known
BracketNodeCompleteWithTeams(matchup, rs) ==
    [round |-> matchup.r,
     matchupId |-> matchup.m,
     team1 |-> RosterMapGet(rs, matchup.t1),
     team2 |-> RosterMapGet(rs, matchup.t2),
     winner |-> IF matchup.w # NoRoster THEN RosterMapGet(rs, matchup.w) ELSE Null,
     loser |-> IF matchup.l # NoRoster THEN RosterMapGet(rs, matchup.l) ELSE Null,
     isCompleted |-> matchup.t1 # NoRoster /\ matchup.t2 # NoRoster,
     team1From |-> matchup.t1_from,
     team2From |-> matchup.t2_from]

\* helpers.ts:860-870
BracketNode(matchup, rs) ==
    [round |-> matchup.r,
     matchupId |-> matchup.m,
     team1 |-> RosterMapGet(rs, matchup.t1),
     team2 |-> RosterMapGet(rs, matchup.t2),
     winner |-> IF matchup.w # NoRoster THEN RosterMapGet(rs, matchup.w) ELSE Null,
     loser |-> IF matchup.l # NoRoster THEN RosterMapGet(rs, matchup.l) ELSE Null,
     isCompleted |-> matchup.w # NoRoster,
     team1From |-> matchup.t1_from,
     team2From |-> matchup.t2_from]

\* helpers.ts:857-873: the reduce that groups the nodes by round
RECURSIVE GroupByRound(_, _, _)
GroupByRound(acc, path, rs) ==
    IF path = <<>> THEN acc
    ELSE LET matchup == Head(path)
             sofar == IF matchup.r \in DOMAIN acc THEN acc[matchup.r] ELSE <<>>
         IN  GroupByRound(Put(acc, matchup.r,
                              Append(sofar, BracketNode(matchup, rs))),
                          Tail(path), rs)

\* buildBracket
BuildBracket(bd, rs, status) ==
    LET championshipPathData == SelectSeq(bd, OnChampionshipPath)
        bracketByRound == GroupByRound(<<>>, championshipPathData, rs)
    IN  [bracketByRound |-> bracketByRound,
         totalRounds |-> Cardinality(DOMAIN bracketByRound),
         playoffStatus |-> status]

\* formatMatchup: getTeamName and getAdvancementInfo
TeamName(team) ==
    IF team.isNull THEN <<"TBD">> ELSE <<"names", team.value.ownerNames>>

AdvancementInfo(fromInfo) ==
    IF fromInfo.isNull THEN Null
    ELSE IF fromInfo.value.w # NoGame
    THEN Some(<<"Winner of Game", fromInfo.value.w>>)
    ELSE IF fromInfo.value.l # NoGame
    THEN Some(<<"Loser of Game", fromInfo.value.l>>)
    ELSE Null

\* formatMatchup, helpers.ts:904-944: the line "<left> vs <right> -> <outcome>"
FormatMatchup(node) ==
    LET team1Name == TeamName(node.team1)
        team2Name == TeamName(node.team2)
        team1Info == AdvancementInfo(node.team1From)
        team2Info == AdvancementInfo(node.team2From)
    IN  IF node.isCompleted /\ ~node.winner.isNull
        THEN [left |-> team1Name, right |-> team2Name,
              outcome |-> <<"wins", node.winner.value.ownerNames>>]
        ELSE IF node.team1.isNull \/ node.team2.isNull
        THEN IF ~team1Info.isNull \/ ~team2Info.isNull
             THEN [left |-> IF team1Info.isNull THEN team1Name ELSE team1Info.value,
                   right |-> IF team2Info.isNull THEN team2Name ELSE team2Info.value,
                   outcome |-> <<"Pending">>]
             ELSE [left |-> team1Name, right |-> team2Name,
                   outcome |-> <<"Pending">>]
        ELSE [left |-> team1Name, right |-> team2Name,
              outcome |-> <<"In progress">>]

\* processPlayoffBracket, processors.ts:590-624: what the report says
PlayoffBracketReport(bracket) ==
    IF bracket.isNull THEN [kind |-> "error", rounds |-> <<>>]
    ELSE IF bracket.value.playoffStatus = "not_started"
    THEN [kind |-> "not_started", rounds |-> <<>>]
    ELSE IF Cardinality(DOMAIN bracket.value.bracketByRound) = 0
    THEN [kind |-> "no_bracket_data", rounds |-> <<>>]
    ELSE LET byRound == bracket.value.bracketByRound
             rounds == AscendingSeq(DOMAIN byRound)
         IN  [kind |-> bracket.value.playoffStatus,
              rounds |-> [i \in 1..Len(rounds) |->
                             [round |-> rounds[i],
                              lines |-> [k \in 1..Len(byRound[rounds[i]]) |->
                                            FormatMatchup(byRound[rounds[i]][k])]]]]

\* a test that also holds in the week the playoffs start
NotStartedUpToStartWeek(currentWeek, playoffWeekStart) ==
    currentWeek <= playoffWeekStart

\* api.ts:1008
PlayoffsNotStarted(currentWeek, playoffWeekStart) ==
    currentWeek < playoffWeekStart

\* the statuses of a League
LeagueStatuses == {"pre_draft", "in_season", "complete"}

\* everything but the state of the playoff bracket
notBracketVars == <<chainVars, yearVars, dispatchVars, matchupVars, lineupVars,
                    headToHeadVars,
                    enhanceVars,
                    playoffHistoryVars,
                    seasonVars,
                    identityVars>>

InitBracket ==
    /\ bpc = "fetchAll"
    /\ bracketData = Null
    /\ bracketRosters = Null
    /\ bracketLeague = Null
    /\ bracketState = Null
    /\ playoffBracket = Null
    /\ builds = 0
    /\ bracketReport = Null
    /\ ChainIdle
    /\ YearIdle
    /\ DispatchIdle
    /\ MatchupIdle
    /\ LineupIdle
    /\ HeadToHeadIdle
    /\ EnhanceIdle
    /\ PlayoffHistoryIdle
    /\ SeasonIdle
    /\ IdentityIdle

\* api.ts:986-992: one of the three fetches resolves to null
BracketFetchFails ==
    /\ bpc = "fetchAll"
    /\ playoffBracket' = Null
    /\ bracketReport' = Some(PlayoffBracketReport(Null))
    /\ bpc' = "done"
    /\ UNCHANGED <<bracketData, bracketRosters, bracketLeague, bracketState, builds>>
    /\ UNCHANGED notBracketVars

\* api.ts:986-1001: the three fetches resolve; the bracket of a complete
\* league is built at once, for any other league the NFL state and the
\* playoff schedule are asked for
BracketFetched ==
    /\ bpc = "fetchAll"
    /\ \E bd \in BracketArrays, status \in LeagueStatuses :
          /\ bracketData' = Some(bd)
          /\ bracketRosters' = Some(LeagueRosters)
          /\ bracketLeague' = Some([status |-> status])
          /\ IF status = "complete"
             THEN LET bracket == Some(BuildBracket(bd, LeagueRosters, "completed"))
                  IN  /\ playoffBracket' = bracket
                      /\ bracketReport' = Some(PlayoffBracketReport(bracket))
                      /\ builds' = builds + 1
                      /\ bpc' = "done"
             ELSE /\ bpc' = "fetchState"
                  /\ UNCHANGED <<playoffBracket, bracketReport, builds>>
    /\ UNCHANGED bracketState
    /\ UNCHANGED notBracketVars

\* api.ts:998-1003: the NFL state or the playoff schedule resolves to null
BracketStateFetchFails ==
    /\ bpc = "fetchState"
    /\ playoffBracket' = Null
    /\ bracketReport' = Some(PlayoffBracketReport(Null))
    /\ bpc' = "done"
    /\ UNCHANGED <<bracketData, bracketRosters, bracketLeague, bracketState, builds>>
    /\ UNCHANGED notBracketVars

\* api.ts:998-1015: before the playoff start week the empty bracket is
\* returned, from that week on the bracket is built as in progress
BracketStateFetched ==
    /\ bpc = "fetchState"
    /\ \E currentWeek \in Weeks, playoffWeekStart \in Weeks :
          /\ bracketState' = Some([currentWeek |-> currentWeek,
                                   playoffWeekStart |-> playoffWeekStart])
          /\ IF PlayoffsNotStarted(currentWeek, playoffWeekStart)
             THEN LET bracket == Some([bracketByRound |-> <<>>,
                                       playoffStatus |-> "not_started"])
                  IN  /\ playoffBracket' = bracket
                      /\ bracketReport' = Some(PlayoffBracketReport(bracket))
                      /\ builds' = builds
             ELSE LET bracket == Some(BuildBracket(bracketData.value,
                                          bracketRosters.value, "in_progress"))
                  IN  /\ playoffBracket' = bracket
                      /\ bracketReport' = Some(PlayoffBracketReport(bracket))
                      /\ builds' = builds + 1
    /\ bpc' = "done"
    /\ UNCHANGED <<bracketData, bracketRosters, bracketLeague>>
    /\ UNCHANGED notBracketVars

NextBracket ==
    \/ BracketFetchFails
    \/ BracketFetched
    \/ BracketStateFetchFails
    \/ BracketStateFetched

SpecBracket == InitBracket /\ [][NextBracket]_vars

-----------------------------------------------------------------------------
(* Properties of the playoff bracket, under SpecBracket *)

BracketReturned == bpc = "done" /\ ~playoffBracket.isNull
BracketBuilt == BracketReturned /\ playoffBracket.value.playoffStatus # "not_started"

\* the edges the championship path is said to consist of
SaidToBeKept(e) ==
    \/ e.r = 1
    \/ e.p = 1
    \/ /\ e.p = NoPlace
       /\ \/ (~e.t1_from.isNull /\ e.t1_from.value.w # NoGame)
          \/ (~e.t2_from.isNull /\ e.t2_from.value.w # NoGame)

\* the places <<round, position>> of a bracket, and those that hold match m
NodePlaces(byRound) ==
    UNION {{<<r, k>> : k \in 1..Len(byRound[r])} : r \in DOMAIN byRound}
PlacesOfMatch(byRound, m) ==
    {pl \in NodePlaces(byRound) : byRound[pl[1]][pl[2]].matchupId = m}

\* C17: buildBracket keeps exactly the edges that are in round 1, or decide
\* 1st place (p = 1), or are unplaced and have a slot filled by the winner of
\* an earlier game; each kept edge is in bracketByRound exactly once, under
\* its own round, a dropped edge nowhere, and totalRounds counts the distinct
\* rounds of the kept edges.
C17_BracketIsTheChampionshipPath ==
    BracketBuilt =>
        LET bd == bracketData.value
            byRound == playoffBracket.value.bracketByRound
        IN  /\ \A m \in 1..Len(bd) :
                  IF SaidToBeKept(bd[m])
                  THEN /\ Cardinality(PlacesOfMatch(byRound, m)) = 1
                       /\ \A pl \in PlacesOfMatch(byRound, m) :
                              /\ pl[1] = bd[m].r
                              /\ byRound[pl[1]][pl[2]].round = bd[m].r
                  ELSE PlacesOfMatch(byRound, m) = {}
            /\ \A pl \in NodePlaces(byRound) :
                  byRound[pl[1]][pl[2]].matchupId \in 1..Len(bd)
            /\ playoffBracket.value.totalRounds =
                  Cardinality({bd[m].r : m \in {k \in 1..Len(bd) : SaidToBeKept(bd[k])}})

C17_Witness ==
    /\ BracketBuilt
    /\ Len(bracketData.value) = 2
    /\ bracketData.value[1].r = 2
    /\ bracketData.value[1].p = 3
    /\ ~bracketData.value[1].t1_from.isNull
    /\ bracketData.value[1].t1_from.value.w # NoGame
    /\ bracketData.value[2].r = 2
    /\ bracketData.value[2].p = NoPlace
    /\ ~bracketData.value[2].t2_from.isNull
    /\ playoffBracket.value.totalRounds = 1
    /\ Len(playoffBracket.value.bracketByRound[2]) = 1

\* C18: in every bracket built, a node whose winner is non-null has both
\* team1 and team2 resolved to a roster identity.
C18_WinnerHasBothTeams ==
    BracketBuilt =>
        LET byRound == playoffBracket.value.bracketByRound
        IN  \A pl \in NodePlaces(byRound) :
                ~byRound[pl[1]][pl[2]].winner.isNull =>
                    /\ ~byRound[pl[1]][pl[2]].team1.isNull
                    /\ ~byRound[pl[1]][pl[2]].team2.isNull

\* the line of the report for the node at a place of the bracket
ReportLine(report, pl) ==
    LET i == CHOOSE j \in 1..Len(report.rounds) : report.rounds[j].round = pl[1]
    IN  report.rounds[i].lines[pl[2]]

\* the words that stand for an advancement hint
HintWords(from) ==
    IF from.value.w # NoGame THEN <<"Winner of Game", from.value.w>>
    ELSE <<"Loser of Game", from.value.l>>

\* C19: for every kept edge, a team slot without a roster id is unresolved in
\* the node and the node carries the edge's advancement hint for that slot,
\* which the report of a game still to be played words as "Winner of Game N"
\* or "Loser of Game N"; isCompleted is true iff the edge carries a winner id.
C19_OpenSlotsCarryTheirHint ==
    BracketBuilt =>
        LET bd == bracketData.value
            byRound == playoffBracket.value.bracketByRound
        IN  \A pl \in NodePlaces(byRound) :
                LET node == byRound[pl[1]][pl[2]]
                    e == bd[node.matchupId]
                    line == ReportLine(bracketReport.value, pl)
                IN  /\ node.isCompleted <=> e.w # NoRoster
                    /\ e.t1 = NoRoster =>
                          /\ node.team1.isNull
                          /\ node.team1From = e.t1_from
                          /\ (~node.isCompleted /\ ~e.t1_from.isNull) =>
                                line.left = HintWords(e.t1_from)
                    /\ e.t2 = NoRoster =>
                          /\ node.team2.isNull
                          /\ node.team2From = e.t2_from
                          /\ (~node.isCompleted /\ ~e.t2_from.isNull) =>
                                line.right = HintWords(e.t2_from)

C19_Witness ==
    /\ BracketBuilt
    /\ Len(bracketData.value) = 2
    /\ bracketData.value[1].r = 1
    /\ bracketData.value[1].w # NoRoster
    /\ bracketData.value[1].t1 # NoRoster
    /\ bracketData.value[2].r = 2
    /\ bracketData.value[2].t1 = NoRoster
    /\ bracketData.value[2].t2 = NoRoster
    /\ bracketData.value[2].w = NoRoster
    /\ 2 \in DOMAIN playoffBracket.value.bracketByRound
    /\ ~playoffBracket.value.bracketByRound[2][1].isCompleted
    /\ ReportLine(bracketReport.value, <<2, 1>>).left = <<"Winner of Game", 1>>
    /\ ReportLine(bracketReport.value, <<2, 1>>).right = <<"Winner of Game", 2>>

\* C20: with its fetches answered, fetchLeaguePlayoffBracket returns the empty
\* bracket with status "not_started", without calling buildBracket, exactly
\* when the league is not complete and the current NFL week is before the
\* playoff start week; a complete league is built with status "completed" and
\* any other league with status "in_progress".
C20_NotStartedShortCircuits ==
    /\ BracketReturned =>
          LET complete == bracketLeague.value.status = "complete"
              early == /\ ~bracketState.isNull
                       /\ bracketState.value.currentWeek
                             < bracketState.value.playoffWeekStart
              status == playoffBracket.value.playoffStatus
          IN  /\ status = "not_started" <=> (~complete /\ early)
              /\ status = "not_started" =>
                    (playoffBracket.value.bracketByRound = <<>> /\ builds = 0)
              /\ complete => (status = "completed" /\ builds = 1)
              /\ (~complete /\ ~early) => (status = "in_progress" /\ builds = 1)
    /\ (bpc = "done" /\ playoffBracket.isNull) =>
          /\ builds = 0
          /\ bracketData.isNull \/ bracketState.isNull
    /\ (~bracketLeague.isNull /\ bracketLeague.value.status = "complete") =>
          BracketReturned

C20_Witness ==
    /\ BracketReturned
    /\ playoffBracket.value.playoffStatus = "not_started"
    /\ builds = 0
    /\ Len(bracketData.value) = 2
    /\ bracketData.value[1].r = 1
    /\ bracketData.value[1].w # NoRoster
    /\ bracketLeague.value.status = "in_season"

-----------------------------------------------------------------------------
(* processSeasonMatchupsBetweenUsers (src/src/utils/processors.ts) *)

\* the points a side scores in a week
WeekScores == 0..MaxPoints

\* an element of the array fetchSeasonMatchupsBetweenUsers resolves to
WeekResult(wk, userScore, opponentScore) ==
    [week |-> wk, userScore |-> userScore, opponentScore |-> opponentScore]

\* an array it may resolve to: the weeks in which the two users met, in
\* ascending order, each with the two scores
SeasonMatchupArray(weeks, scores) ==
    [i \in 1..Len(weeks) |-> WeekResult(weeks[i], scores[i][1], scores[i][2])]

\* a classification that gives the user the weeks with level scores
GameMarkLevelIsWin(userScore, opponentScore) ==
    IF userScore >= opponentScore THEN "W" ELSE "L"

\* processors.ts:536-553: the branch taken for one week
GameMark(userScore, opponentScore) ==
    IF userScore > opponentScore THEN "W"
    ELSE IF opponentScore > userScore THEN "L"
    ELSE "T"

\* processors.ts:531-553: the three counters after the map over the weeks
RECURSIVE CountGames(_, _)
CountGames(data, counters) ==
    IF data = <<>> THEN counters
    ELSE LET mark == GameMark(Head(data).userScore, Head(data).opponentScore)
         IN  CountGames(Tail(data),
                 [userWins |-> counters.userWins + (IF mark = "W" THEN 1 ELSE 0),
                  opponentWins |->
                      counters.opponentWins + (IF mark = "L" THEN 1 ELSE 0),
                  ties |-> counters.ties + (IF mark = "T" THEN 1 ELSE 0)])

\* processors.ts:556-560: reduce((sum, m) => sum + m.userScore, 0) and the
\* same over opponentScore
RECURSIVE SumUserScores(_)
SumUserScores(data) ==
    IF data = <<>> THEN 0 ELSE Head(data).userScore + SumUserScores(Tail(data))

RECURSIVE SumOpponentScores(_)
SumOpponentScores(data) ==
    IF data = <<>> THEN 0
    ELSE Head(data).opponentScore + SumOpponentScores(Tail(data))

\* processors.ts:563-566: the record string, the ties only when there are any
RecordString(counters) ==
    IF counters.ties > 0
    THEN <<counters.userWins, counters.opponentWins, counters.ties>>
    ELSE <<counters.userWins, counters.opponentWins>>

\* processors.ts:520-580: the report of one season
ProcessSeasonMatchupsBetweenUsers(data) ==
    IF data.isNull THEN [kind |-> "error"]
    ELSE IF Len(data.value) = 0 THEN [kind |-> "did not play"]
    ELSE LET counters == CountGames(data.value, [userWins |-> 0,
                                                 opponentWins |-> 0, ties |-> 0])
         IN  [kind |-> "record",
              userWins |-> counters.userWins,
              opponentWins |-> counters.opponentWins,
              ties |-> counters.ties,
              record |-> RecordString(counters),
              totalGames |-> Len(data.value),
              userTotalPoints |-> SumUserScores(data.value),
              opponentTotalPoints |-> SumOpponentScores(data.value),
              results |-> MapSeq(data.value, LAMBDA m :
                              [week |-> m.week, userScore |-> m.userScore,
                               opponentScore |-> m.opponentScore,
                               mark |-> GameMark(m.userScore, m.opponentScore)])]

\* everything but the state of processSeasonMatchupsBetweenUsers
notHeadToHeadVars == <<chainVars, yearVars, dispatchVars, matchupVars, lineupVars,
                       bracketVars,
                    enhanceVars,
                    playoffHistoryVars,
                    seasonVars,
                    identityVars>>

InitHeadToHead ==
    /\ hpc = "fetch"
    /\ matchupData = Null
    /\ headToHead = Null
    /\ ChainIdle
    /\ YearIdle
    /\ DispatchIdle
    /\ MatchupIdle
    /\ LineupIdle
    /\ BracketIdle
    /\ EnhanceIdle
    /\ PlayoffHistoryIdle
    /\ SeasonIdle
    /\ IdentityIdle

\* processors.ts:513-522: fetchSeasonMatchupsBetweenUsers resolves to null
SeasonMatchupsMissing ==
    /\ hpc = "fetch"
    /\ matchupData' = Null
    /\ headToHead' = Some(ProcessSeasonMatchupsBetweenUsers(Null))
    /\ hpc' = "done"
    /\ UNCHANGED notHeadToHeadVars

\* processors.ts:513-580: it resolves to an array and the report is written
SeasonMatchupsReported ==
    /\ hpc = "fetch"
    /\ \E S \in SUBSET (1..MaxGames) :
          \E scores \in [1..Cardinality(S) -> WeekScores \X WeekScores] :
              LET data == SeasonMatchupArray(AscendingSeq(S), scores)
              IN  /\ matchupData' = Some(data)
                  /\ headToHead' = Some(ProcessSeasonMatchupsBetweenUsers(Some(data)))
    /\ hpc' = "done"
    /\ UNCHANGED notHeadToHeadVars

NextHeadToHead ==
    \/ SeasonMatchupsMissing
    \/ SeasonMatchupsReported

SpecHeadToHead == InitHeadToHead /\ [][NextHeadToHead]_vars

-----------------------------------------------------------------------------
(* Properties of the head-to-head record, under SpecHeadToHead *)

\* the weeks of an array in which the user's score is above, below or level
\* with the opponent's
WeeksWon(data) == {i \in 1..Len(data) : data[i].userScore > data[i].opponentScore}
WeeksLost(data) == {i \in 1..Len(data) : data[i].opponentScore > data[i].userScore}
WeeksLevel(data) == {i \in 1..Len(data) : data[i].userScore = data[i].opponentScore}

\* the sum of f over a finite set of positions
RECURSIVE SumOver(_, _)
SumOver(S, f) ==
    IF S = {} THEN 0
    ELSE LET i == CHOOSE x \in S : TRUE IN f[i] + SumOver(S \ {i}, f)

\* C21: processSeasonMatchupsBetweenUsers counts a win for each week with
\* userScore > opponentScore, a loss for each week with opponentScore >
\* userScore and a tie otherwise; wins + losses + ties is the number of games
\* and the two point totals are the sums of the weekly scores.
C21_RecordAndTotalsAddUp ==
    (hpc = "done" /\ ~matchupData.isNull /\ matchupData.value # <<>>) =>
        LET data == matchupData.value
            report == headToHead.value
        IN  /\ report.kind = "record"
            /\ report.userWins = Cardinality(WeeksWon(data))
            /\ report.opponentWins = Cardinality(WeeksLost(data))
            /\ report.ties = Cardinality(WeeksLevel(data))
            /\ report.userWins + report.opponentWins + report.ties = Len(data)
            /\ report.totalGames = Len(data)
            /\ report.userTotalPoints =
                  SumOver(1..Len(data), [i \in 1..Len(data) |-> data[i].userScore])
            /\ report.opponentTotalPoints =
                  SumOver(1..Len(data), [i \in 1..Len(data) |-> data[i].opponentScore])
            /\ \A i \in 1..Len(data) :
                  /\ report.results[i].week = data[i].week
                  /\ report.results[i].mark = "W" <=> i \in WeeksWon(data)
                  /\ report.results[i].mark = "L" <=> i \in WeeksLost(data)
                  /\ report.results[i].mark = "T" <=> i \in WeeksLevel(data)

\* a win, a loss and a tie: the record 1-1-1 with level totals
C21_Witness ==
    /\ hpc = "done"
    /\ ~matchupData.isNull
    /\ Len(matchupData.value) = 3
    /\ matchupData.value[1].userScore > matchupData.value[1].opponentScore
    /\ matchupData.value[2].userScore < matchupData.value[2].opponentScore
    /\ matchupData.value[3].userScore = matchupData.value[3].opponentScore
    /\ headToHead.value.record = <<1, 1, 1>>
    /\ headToHead.value.userTotalPoints = headToHead.value.opponentTotalPoints
    /\ headToHead.value.userTotalPoints > 0

-----------------------------------------------------------------------------
(* enhanceMatchupWithPlayerDetails (helpers.ts) *)

\* the player ids of a roster, and the id "0" of a starter slot left empty
RosterPlayerIds == 1..MaxPlayers
EmptySlot == 0
\* the number of starter slots a lineup fills
StarterCounts == {0, 1, 2}

\* the arrays with the elements of S, each once, in every order
RECURSIVE Orderings(_)
Orderings(S) ==
    IF S = {} THEN {<<>>}
    ELSE UNION {{<<x>> \o rest : rest \in Orderings(S \ {x})} : x \in S}

\* the starters a lineup may name: rostered players, each at most once, and
\* empty slots
StarterArrays(P) ==
    {st \in UNION {[1..n -> P \cup {EmptySlot}] : n \in StarterCounts} :
        \A i, j \in 1..Len(st) : (i # j /\ st[i] = st[j]) => st[i] = EmptySlot}

\* the league's roster_positions, the starter slots first
RosterPositionArrays ==
    {<<>>, <<"QB">>, <<"QB", "RB">>, <<"QB", "RB", "BN">>}

\* a Matchup entry: players_points gives every rostered player a score and
\* starters_points repeats the starters' scores in starter order
MatchupEntry(starters, players, playersPoints) ==
    [starters |-> starters,
     starters_points |->
         [i \in 1..Len(starters) |->
             IF starters[i] = EmptySlot THEN 0 ELSE playersPoints[starters[i]]],
     players |-> players,
     players_points |-> playersPoints]

\* Array.prototype.slice(0, n)
Slice(arr, n) == SubSeq(arr, 1, IF n < Len(arr) THEN n ELSE Len(arr))

\* arr[index] || fallback, for a position index counted from 1
ElementOr(arr, index, fallback) ==
    IF index \in 1..Len(arr) THEN arr[index] ELSE fallback

\* mapPlayerDetails with a matchup context: the player's id, the slot (or
\* "UNKNOWN") and the points, which are 0 for an empty slot
MapPlayerDetails(playerId, rosterSlot, points) ==
    [playerId |-> playerId,
     rosterSlot |-> rosterSlot,
     points |-> IF playerId = EmptySlot THEN 0 ELSE points]

\* a bench that lists every rostered player
BenchPlayerIdsAll(allPlayers, starters) == allPlayers

\* helpers.ts:816-817: allPlayers.filter((id) => !starters.includes(id))
BenchPlayerIds(allPlayers, starters) ==
    SelectSeq(allPlayers, LAMBDA id : ~Includes(starters, id))

\* helpers.ts:797-834
EnhanceMatchupWithPlayerDetails(matchup, positions) ==
    LET starters == matchup.starters
        starterPositions == Slice(positions, Len(starters))
        benchPlayerIds == BenchPlayerIds(matchup.players, starters)
    IN  [starters |->
             [i \in 1..Len(starters) |->
                 MapPlayerDetails(starters[i],
                     ElementOr(starterPositions, i, "UNKNOWN"),
                     ElementOr(matchup.starters_points, i, 0))],
         bench |->
             [i \in 1..Len(benchPlayerIds) |->
                 MapPlayerDetails(benchPlayerIds[i], "BN",
                     matchup.players_points[benchPlayerIds[i]])]]

\* everything but the state of enhanceMatchupWithPlayerDetails
notEnhanceVars == <<chainVars, yearVars, dispatchVars, matchupVars, lineupVars,
                    bracketVars, headToHeadVars,
                    playoffHistoryVars,
                    seasonVars,
                    identityVars>>

InitEnhance ==
    /\ epc = "call"
    /\ \E P \in SUBSET RosterPlayerIds :
          \E players \in Orderings(P), starters \in StarterArrays(P),
             playersPoints \in [P -> {0, MaxPoints}] :
              matchupEntry = Some(MatchupEntry(starters, players, playersPoints))
    /\ rosterPositions \in RosterPositionArrays
    /\ enhancedMatchup = Null
    /\ ChainIdle
    /\ YearIdle
    /\ DispatchIdle
    /\ MatchupIdle
    /\ LineupIdle
    /\ BracketIdle
    /\ HeadToHeadIdle
    /\ PlayoffHistoryIdle
    /\ SeasonIdle
    /\ IdentityIdle

\* helpers.ts:797-834: the entry is enhanced
EnhanceMatchup ==
    /\ epc = "call"
    /\ enhancedMatchup' =
          Some(EnhanceMatchupWithPlayerDetails(matchupEntry.value, rosterPositions))
    /\ epc' = "returned"
    /\ UNCHANGED <<matchupEntry, rosterPositions>>
    /\ UNCHANGED notEnhanceVars

NextEnhance == EnhanceMatchup

SpecEnhance == InitEnhance /\ [][NextEnhance]_vars

-----------------------------------------------------------------------------
(* Properties of enhanceMatchupWithPlayerDetails, under SpecEnhance *)

\* the player ids of a list of player details
PlayerIdsOf(details) == {details[i].playerId : i \in 1..Len(details)}

\* C26: enhanceMatchupWithPlayerDetails returns the starters in the entry's
\* starter order, the i-th labelled with the i-th configured roster position
\* ("UNKNOWN" where the league configures fewer positions than the entry has
\* starters), and a bench that is exactly the entry's players minus its
\* starters, each once and labelled "BN".
C26_StartersInOrderBenchIsTheRest ==
    epc = "returned" =>
        LET entry == matchupEntry.value
            res == enhancedMatchup.value
        IN  /\ Len(res.starters) = Len(entry.starters)
            /\ \A i \in 1..Len(entry.starters) :
                  /\ res.starters[i].playerId = entry.starters[i]
                  /\ res.starters[i].rosterSlot =
                        IF i <= Len(rosterPositions) THEN rosterPositions[i]
                        ELSE "UNKNOWN"
            /\ PlayerIdsOf(res.bench) = Range(entry.players) \ Range(entry.starters)
            /\ PlayerIdsOf(res.bench) \cap PlayerIdsOf(res.starters) = {}
            /\ Len(res.bench) = Cardinality(PlayerIdsOf(res.bench))
            /\ \A i \in 1..Len(res.bench) : res.bench[i].rosterSlot = "BN"

\* two starters out of three players, out of roster order, in a league with
\* more positions than starters
C26_Witness ==
    /\ epc = "returned"
    /\ matchupEntry.value.players = <<1, 2, 3>>
    /\ matchupEntry.value.starters = <<3, 1>>
    /\ rosterPositions = <<"QB", "RB", "BN">>
    /\ enhancedMatchup.value.starters[1].rosterSlot = "QB"
    /\ enhancedMatchup.value.starters[2].rosterSlot = "RB"
    /\ Len(enhancedMatchup.value.bench) = 1
    /\ enhancedMatchup.value.bench[1].playerId = 2

-----------------------------------------------------------------------------
(* fetchLeaguePlayoffHistory (src/src/utils/api.ts) and processPlayoffHistory *)

\* a fixed text in the place of a list of owner names
Sentinel(text) == <<<<text>>>>

\* a match of the winners bracket of a finished season, as far as the
\* standings read it
FinishedMatch(r, p, w, l) == [r |-> r, p |-> p, w |-> w, l |-> l]
FinishedMatches ==
    {FinishedMatch(r, p, wl[1], wl[2]) :
        r \in Rounds, p \in Places, wl \in {<<1, 2>>, <<2, 1>>}}
FinishedBrackets == UNION {[1..n -> FinishedMatches] : n \in BracketSizes}

\* the League of the season
HistoryLeague(status) ==
    [name |-> "league", status |-> status, total_rosters |-> MaxRosters]

\* a check that takes only a season under way for incomplete
SeasonUnderWay(status) == status = "in_season"

\* api.ts:665: leagueData.status !== Status.complete
SeasonIncomplete(status) == status # "complete"

\* api.ts:666-674: the result for a season that is not complete
IncompleteYear(season, league) ==
    [year |-> season, leagueName |-> league.name,
     placements |-> [k \in {<<"incomplete">>} |-> Sentinel("Season in progress")],
     missedPlayoffs |-> <<>>, isIncomplete |-> TRUE]

\* api.ts:677-683: the result a complete season starts from
EmptyYear(season, league) ==
    [year |-> season, leagueName |-> league.name, placements |-> <<>>,
     missedPlayoffs |-> <<>>, isIncomplete |-> FALSE]

\* Math.max(...rounds), -Infinity of no round
LastRound(bracket) ==
    IF bracket = <<>> THEN 0 - 1
    ELSE CHOOSE r \in {bracket[i].r : i \in 1..Len(bracket)} :
             \A i \in 1..Len(bracket) : bracket[i].r <= r

\* api.ts:700-708: two standings for every match that decides a place
RECURSIVE StandingsOf(_)
StandingsOf(matches) ==
    IF matches = <<>> THEN <<>>
    ELSE (IF Head(matches).p # NoPlace
          THEN <<[placement |-> ToString(Head(matches).p),
                  rosterId |-> Head(matches).w],
                 [placement |-> ToString(Head(matches).p + 1),
                  rosterId |-> Head(matches).l]>>
          ELSE <<>>) \o StandingsOf(Tail(matches))

\* api.ts:692-708
FinalStandings(bracket) ==
    StandingsOf(SelectSeq(bracket, LAMBDA match : match.r = LastRound(bracket)))

\* api.ts:719-730: the rosters without a standing are added, in id order
WithMissedPlayoffs(standings, totalRosters) ==
    standings \o
    MapSeq(AscendingSeq({id \in 1..totalRosters :
                            \A i \in 1..Len(standings) : standings[i].rosterId # id}),
           LAMBDA id : [placement |-> <<"missed_playoffs">>, rosterId |-> id])

\* api.ts:732-750: each standing is written into the result
RECURSIVE PlaceStandings(_, _, _)
PlaceStandings(standings, rs, result) ==
    IF standings = <<>> THEN result
    ELSE LET standing == Head(standings)
             roster == Find(rs, LAMBDA r : r.roster_id = standing.rosterId)
         IN  PlaceStandings(Tail(standings), rs,
                 IF roster.isNull
                 THEN [result EXCEPT !.placements =
                          Put(@, standing.placement, Sentinel("Roster not found"))]
                 ELSE IF standing.placement = <<"missed_playoffs">>
                 THEN [result EXCEPT !.missedPlayoffs = @ \o roster.value.ownerNames]
                 ELSE [result EXCEPT !.placements =
                          Put(@, standing.placement,
                              IF Len(roster.value.ownerNames) > 0
                              THEN roster.value.ownerNames
                              ELSE Sentinel("Unknown user"))])

\* everything but the state of fetchLeaguePlayoffHistory
notPlayoffHistoryVars == <<chainVars, yearVars, dispatchVars, matchupVars,
                           lineupVars, bracketVars, headToHeadVars, enhanceVars,
                    seasonVars,
                    identityVars>>

InitPlayoffHistory ==
    /\ ppc = "fetchLeague"
    /\ historySeason \in SeasonLabels
    /\ historyLeague = Null
    /\ finalStandings = <<>>
    /\ historyFetches = <<>>
    /\ yearData = Null
    /\ historyReport = Null
    /\ ChainIdle
    /\ YearIdle
    /\ DispatchIdle
    /\ MatchupIdle
    /\ LineupIdle
    /\ BracketIdle
    /\ HeadToHeadIdle
    /\ EnhanceIdle
    /\ SeasonIdle
    /\ IdentityIdle

\* api.ts:660-663, processors.ts:271-275: fetchLeagueData resolves to null
HistoryLeagueFetchFails ==
    /\ ppc = "fetchLeague"
    /\ historyFetches' = Append(historyFetches, "league")
    /\ yearData' = Null
    /\ historyReport' = Some(ProcessPlayoffHistory(historySeason, Null).value)
    /\ ppc' = "done"
    /\ UNCHANGED <<historySeason, historyLeague, finalStandings>>
    /\ UNCHANGED notPlayoffHistoryVars

\* api.ts:660-683, processors.ts:277-279: the league arrives; a season that is
\* not complete is returned as incomplete at once
HistoryLeagueFetched ==
    /\ ppc = "fetchLeague"
    /\ historyFetches' = Append(historyFetches, "league")
    /\ \E status \in LeagueStatuses :
          LET league == HistoryLeague(status)
          IN  /\ historyLeague' = Some(league)
              /\ IF SeasonIncomplete(status)
                 THEN /\ yearData' = Some(IncompleteYear(historySeason, league))
                      /\ historyReport' =
                            Some(ProcessPlayoffHistory(historySeason,
                                     Some(IncompleteYear(historySeason, league))).value)
                      /\ ppc' = "done"
                 ELSE /\ yearData' = Null
                      /\ historyReport' = Null
                      /\ ppc' = "fetchBracket"
    /\ UNCHANGED <<historySeason, finalStandings>>
    /\ UNCHANGED notPlayoffHistoryVars

\* api.ts:685-690: fetchWinnersBracket resolves to null
HistoryBracketFetchFails ==
    /\ ppc = "fetchBracket"
    /\ historyFetches' = Append(historyFetches, "bracket")
    /\ LET result == [EmptyYear(historySeason, historyLeague.value) EXCEPT
                         !.placements = Put(@, ToString(1),
                                            Sentinel("Could not fetch playoff data"))]
       IN  /\ yearData' = Some(result)
           /\ historyReport' =
                 Some(ProcessPlayoffHistory(historySeason, Some(result)).value)
    /\ ppc' = "done"
    /\ UNCHANGED <<historySeason, historyLeague, finalStandings>>
    /\ UNCHANGED notPlayoffHistoryVars

\* api.ts:685-711: the bracket arrives, the standings of its last round are
\* read and the rosters are asked for
HistoryBracketFetched ==
    /\ ppc = "fetchBracket"
    /\ historyFetches' = Append(historyFetches, "bracket")
    /\ \E bracket \in FinishedBrackets : finalStandings' = FinalStandings(bracket)
    /\ ppc' = "fetchRosters"
    /\ UNCHANGED <<historySeason, historyLeague, yearData, historyReport>>
    /\ UNCHANGED notPlayoffHistoryVars

\* api.ts:711-753: the rosters arrive, or do not, and the result is filled in
HistoryRostersSettled ==
    /\ ppc = "fetchRosters"
    /\ historyFetches' = Append(historyFetches, "rosters")
    /\ \E historicalRosters \in {Null} \cup {Some(rs) : rs \in RosterArrays} :
          LET empty == EmptyYear(historySeason, historyLeague.value)
              result ==
                  IF historicalRosters.isNull \/ Len(finalStandings) = 0
                  THEN [empty EXCEPT
                           !.placements = Put(@, ToString(1),
                                              Sentinel("No playoff data available"))]
                  ELSE PlaceStandings(
                           WithMissedPlayoffs(finalStandings,
                               historyLeague.value.total_rosters),
                           historicalRosters.value, empty)
          IN  /\ yearData' = Some(result)
              /\ historyReport' =
                    Some(ProcessPlayoffHistory(historySeason, Some(result)).value)
    /\ ppc' = "done"
    /\ UNCHANGED <<historySeason, historyLeague, finalStandings>>
    /\ UNCHANGED notPlayoffHistoryVars

NextPlayoffHistory ==
    \/ HistoryLeagueFetchFails
    \/ HistoryLeagueFetched
    \/ HistoryBracketFetchFails
    \/ HistoryBracketFetched
    \/ HistoryRostersSettled

SpecPlayoffHistory == InitPlayoffHistory /\ [][NextPlayoffHistory]_vars

-----------------------------------------------------------------------------
(* Properties of the playoff history, under SpecPlayoffHistory *)

\* the texts processPlayoffHistory writes for a failed and an unfinished season
FailedSeasonText == "Error: Could not fetch playoff data"
UnfinishedSeasonText == "Season is currently in progress"

\* C23: a season whose league is not complete yields its own outcome, which is
\* no error: fetchLeaguePlayoffHistory returns a result flagged isIncomplete,
\* processPlayoffHistory reports the season as in progress, which is not what
\* it reports when the league fetch fails, and neither the bracket nor the
\* rosters are fetched for such a season.
C23_UnfinishedSeasonIsNoError ==
    /\ (~historyLeague.isNull /\ historyLeague.value.status # "complete") =>
          /\ ppc = "done"
          /\ historyFetches = <<"league">>
          /\ ~yearData.isNull
          /\ yearData.value.isIncomplete
          /\ yearData.value.year = historySeason
          /\ historyReport.value.text = UnfinishedSeasonText
          /\ historyReport.value.year = historySeason
    /\ (ppc = "done" /\ historyLeague.isNull) =>
          /\ yearData.isNull
          /\ historyReport.value.text = FailedSeasonText
    /\ ppc = "done" =>
          /\ historyReport.value.text = UnfinishedSeasonText <=>
                (~historyLeague.isNull /\ historyLeague.value.status # "complete")
          /\ historyReport.value.text = FailedSeasonText <=> historyLeague.isNull
    /\ FailedSeasonText # UnfinishedSeasonText

C23_Witness ==
    /\ ppc = "done"
    /\ ~historyLeague.isNull
    /\ historyLeague.value.status = "pre_draft"
    /\ yearData.value.isIncomplete
    /\ historyReport.value.text = UnfinishedSeasonText
    /\ historyFetches = <<"league">>

-----------------------------------------------------------------------------
(* makeRequest and fetchSeasonMatchupsBetweenUsers (src/src/utils/api.ts) *)

\* what may come of one call of fetch(url) and the reading of its body
FailedResponses == {"network error", "status not ok", "invalid json"}
Responses == FailedResponses \cup {"ok"}

\* a request that is sent again after a failure
FetchCallsWithRetry(url, wk, response) ==
    IF response = "ok" THEN <<[url |-> url, week |-> wk, response |-> response]>>
    ELSE <<[url |-> url, week |-> wk, response |-> response],
           [url |-> url, week |-> wk, response |-> response]>>

\* api.ts:147-160: makeRequest calls fetch once, whatever comes of it
FetchCalls(url, wk, response) ==
    <<[url |-> url, week |-> wk, response |-> response]>>

\* api.ts:147-160: the body when the response is ok and its JSON is read,
\* null when fetch rejects, the status is not ok or the body is no JSON
MakeRequest(response, body) == IF response = "ok" THEN Some(body) ELSE Null

\* the requests of one fetchMatchup, in the order it makes them
\* (api.ts:341-401)
MatchupRequests == <<"matchups", "rosters", "state", "league">>

\* how a fetchMatchup of the scan may end: at a request that fails, at a
\* lookup that misses, at a missing player file, or with the two sides
WeekOutcome(kind, at, response, opponent, userScore, opponentScore) ==
    [kind |-> kind, at |-> at, response |-> response, opponent |-> opponent,
     userScore |-> userScore, opponentScore |-> opponentScore]

MissingWeekOutcomes ==
    {WeekOutcome("request fails", k, r, NoRoster, 0, 0) :
        k \in 1..Len(MatchupRequests), r \in FailedResponses}
    \cup {WeekOutcome("lookup misses", 2, "ok", NoRoster, 0, 0),
          WeekOutcome("no player file", Len(MatchupRequests), "ok", NoRoster, 0, 0)}

ResolvedWeekOutcomes ==
    {WeekOutcome("resolved", Len(MatchupRequests), "ok", o, u, v) :
        o \in RosterIds \ {1}, u \in {0, MaxPoints}, v \in {0, MaxPoints}}

WeekOutcomes == MissingWeekOutcomes \cup ResolvedWeekOutcomes

\* api.ts:341-424: what fetchMatchup resolves to: null when a request gives
\* null, a lookup misses or the player file is missing
FetchMatchupResult(outcome) ==
    IF outcome.kind = "request fails" THEN MakeRequest(outcome.response, <<>>)
    ELSE IF outcome.kind = "resolved"
    THEN Some([userRoster |-> [roster_id |-> 1, points |-> outcome.userScore],
               opponentRoster |-> [roster_id |-> outcome.opponent,
                                   points |-> outcome.opponentScore]])
    ELSE Null

\* the calls of fetch a fetchMatchup with this outcome makes for week wk
RECURSIVE RequestsUpTo(_, _, _)
RequestsUpTo(k, outcome, wk) ==
    IF k = 0 THEN <<>>
    ELSE RequestsUpTo(k - 1, outcome, wk) \o
         FetchCalls(MatchupRequests[k], wk,
                    IF k = outcome.at THEN outcome.response ELSE "ok")

\* api.ts:345, 266-282: a fetchMatchup whose rosters arrive resolves the
\* owners of every roster
ResolvesOwners(outcome) == outcome.kind # "request fails" \/ outcome.at > 2

\* every roster's owners resolved once more
OwnersResolved(resolutions) == [r \in DOMAIN resolutions |-> resolutions[r] + 1]

\* api.ts:867: continue goes on with the next week
WeekAfterMiss(wk, last) == wk + 1

\* api.ts:852-856: the last week of the scan
WeeksToProcess(sameSeason, currentWeek, totalWeeks) ==
    IF sameSeason THEN (IF currentWeek > 1 THEN currentWeek - 1 ELSE 0)
    ELSE totalWeeks

\* everything but the state of fetchSeasonMatchupsBetweenUsers
notSeasonVars == <<chainVars, yearVars, dispatchVars, matchupVars, lineupVars,
                   bracketVars, headToHeadVars, enhanceVars, playoffHistoryVars,
                    identityVars>>

InitSeason ==
    /\ spc = "setup"
    /\ opponentRosterId = Null
    /\ weeksToProcess = 0
    /\ scanWeek = 0
    /\ weeksAttempted = <<>>
    /\ seasonMatchups = <<>>
    /\ seasonResult = Null
    /\ requestLog = <<>>
    /\ ownerResolutions = [r \in RosterIds |-> 0]
    /\ ChainIdle
    /\ YearIdle
    /\ DispatchIdle
    /\ MatchupIdle
    /\ LineupIdle
    /\ BracketIdle
    /\ HeadToHeadIdle
    /\ EnhanceIdle
    /\ PlayoffHistoryIdle
    /\ IdentityIdle

\* api.ts:842-848: the opponent's id, the rosters and the playoff schedule
\* are fetched one after the other, and null is returned when one is missing
SeasonSetupFails ==
    /\ spc = "setup"
    /\ \E user \in Responses, rs \in Responses, league \in Responses :
          /\ \/ MakeRequest(user, "user").isNull
             \/ MakeRequest(rs, "rosters").isNull
             \/ MakeRequest(league, "league").isNull
          /\ requestLog' = requestLog \o FetchCalls("user", 0, user)
                              \o FetchCalls("rosters", 0, rs)
                              \o FetchCalls("league", 0, league)
          /\ ownerResolutions' =
                IF rs = "ok" THEN OwnersResolved(ownerResolutions)
                ELSE ownerResolutions
    /\ seasonResult' = Null
    /\ spc' = "done"
    /\ UNCHANGED <<opponentRosterId, weeksToProcess, scanWeek, weeksAttempted,
                   seasonMatchups>>
    /\ UNCHANGED notSeasonVars

\* api.ts:842-851: the three arrive and the opponent's roster is looked up;
\* weeksToProcess starts as the schedule's totalWeeks (api.ts:858)
SeasonSetupDone ==
    /\ spc = "setup"
    /\ requestLog' = requestLog \o FetchCalls("user", 0, "ok")
                        \o FetchCalls("rosters", 0, "ok")
                        \o FetchCalls("league", 0, "ok")
    /\ ownerResolutions' = OwnersResolved(ownerResolutions)
    /\ opponentRosterId' \in {Null} \cup {Some(r) : r \in RosterIds \ {1}}
    /\ \E totalWeeks \in Weeks : weeksToProcess' = totalWeeks
    /\ spc' = "fetchState"
    /\ UNCHANGED <<scanWeek, weeksAttempted, seasonMatchups, seasonResult>>
    /\ UNCHANGED notSeasonVars

\* api.ts:853-854: fetchNFLState resolves to null
SeasonStateFetchFails ==
    /\ spc = "fetchState"
    /\ \E response \in Responses :
          /\ MakeRequest(response, "state").isNull
          /\ requestLog' = requestLog \o FetchCalls("state", 0, response)
    /\ seasonResult' = Null
    /\ spc' = "done"
    /\ UNCHANGED <<opponentRosterId, weeksToProcess, scanWeek, weeksAttempted,
                   seasonMatchups, ownerResolutions>>
    /\ UNCHANGED notSeasonVars

\* api.ts:853-865: the NFL state arrives, the last week is settled and the
\* loop starts at week 1
SeasonStateFetched ==
    /\ spc = "fetchState"
    /\ requestLog' = requestLog \o FetchCalls("state", 0, "ok")
    /\ \E sameSeason \in BOOLEAN, currentWeek \in Weeks :
          weeksToProcess' = WeeksToProcess(sameSeason, currentWeek, weeksToProcess)
    /\ scanWeek' = 1
    /\ spc' = "scan"
    /\ UNCHANGED <<opponentRosterId, weeksAttempted, seasonMatchups, seasonResult,
                   ownerResolutions>>
    /\ UNCHANGED notSeasonVars

\* api.ts:866-868: fetchMatchup resolves to null for the week and the loop
\* continues
WeekMatchupMissing ==
    /\ spc = "scan"
    /\ scanWeek <= weeksToProcess
    /\ \E outcome \in WeekOutcomes :
          /\ FetchMatchupResult(outcome).isNull
          /\ requestLog' = requestLog \o RequestsUpTo(outcome.at, outcome, scanWeek)
          /\ ownerResolutions' =
                IF ResolvesOwners(outcome) THEN OwnersResolved(ownerResolutions)
                ELSE ownerResolutions
    /\ weeksAttempted' = Append(weeksAttempted, scanWeek)
    /\ scanWeek' = WeekAfterMiss(scanWeek, weeksToProcess)
    /\ UNCHANGED <<spc, opponentRosterId, weeksToProcess, seasonMatchups,
                   seasonResult>>
    /\ UNCHANGED notSeasonVars

\* api.ts:866-877: fetchMatchup resolves to the week's matchup, which is
\* pushed when its opponent is the roster looked for
WeekMatchupResolved ==
    /\ spc = "scan"
    /\ scanWeek <= weeksToProcess
    /\ \E outcome \in WeekOutcomes :
          LET weekMatchup == FetchMatchupResult(outcome)
          IN  /\ ~weekMatchup.isNull
              /\ requestLog' =
                    requestLog \o RequestsUpTo(outcome.at, outcome, scanWeek)
              /\ seasonMatchups' =
                    IF opponentRosterId =
                          Some(weekMatchup.value.opponentRoster.roster_id)
                    THEN Append(seasonMatchups,
                                WeekResult(scanWeek,
                                           weekMatchup.value.userRoster.points,
                                           weekMatchup.value.opponentRoster.points))
                    ELSE seasonMatchups
    /\ ownerResolutions' = OwnersResolved(ownerResolutions)
    /\ weeksAttempted' = Append(weeksAttempted, scanWeek)
    /\ scanWeek' = scanWeek + 1
    /\ UNCHANGED <<spc, opponentRosterId, weeksToProcess, seasonResult>>
    /\ UNCHANGED notSeasonVars

\* api.ts:865, 879: the loop is over and matchups is returned
ScanEnds ==
    /\ spc = "scan"
    /\ ~(scanWeek <= weeksToProcess)
    /\ seasonResult' = Some(seasonMatchups)
    /\ spc' = "done"
    /\ UNCHANGED <<opponentRosterId, weeksToProcess, scanWeek, weeksAttempted,
                   seasonMatchups, requestLog, ownerResolutions>>
    /\ UNCHANGED notSeasonVars

NextSeason ==
    \/ SeasonSetupFails
    \/ SeasonSetupDone
    \/ SeasonStateFetchFails
    \/ SeasonStateFetched
    \/ WeekMatchupMissing
    \/ WeekMatchupResolved
    \/ ScanEnds

SpecSeason == InitSeason /\ [][NextSeason]_vars

-----------------------------------------------------------------------------
(* Properties of the season scan, under SpecSeason *)

\* the calls of fetch made for a url in a week (week 0: outside the loop)
CallsFor(url, wk) ==
    {i \in 1..Len(requestLog) : requestLog[i].url = url /\ requestLog[i].week = wk}

\* a call of fetch for the week failed
WeekRequestFailed(wk) ==
    \E i \in 1..Len(requestLog) :
        requestLog[i].week = wk /\ requestLog[i].response # "ok"

\* C25: within one query the owners of every roster of the league are
\* resolved exactly once: a season head-to-head query never resolves them
\* more than once, and has resolved them once when it returns its array.
C25_OwnersResolvedOncePerQuery ==
    \A r \in DOMAIN ownerResolutions :
        /\ ownerResolutions[r] <= 1
        /\ (spc = "done" /\ ~seasonResult.isNull) => ownerResolutions[r] = 1

\* C28: makeRequest calls fetch once for every request and turns a failure
\* into an absent result without throwing: no request is repeated, a failed
\* request outside the loop ends the query with null and a failed request of
\* a week leaves that week out; the scan attempts every week from 1 to
\* weeksToProcess in ascending order, whatever the weeks before gave.
C28_OneAttemptAndTheScanGoesOn ==
    /\ \A i \in 1..Len(requestLog) :
          Cardinality(CallsFor(requestLog[i].url, requestLog[i].week)) = 1
    /\ \A i \in 1..Len(weeksAttempted) :
          /\ weeksAttempted[i] = i
          /\ Cardinality(CallsFor("matchups", i)) = 1
    /\ spc = "scan" => Len(weeksAttempted) = scanWeek - 1
    /\ (spc = "done" /\ ~seasonResult.isNull) =>
          /\ Len(weeksAttempted) = weeksToProcess
          /\ ~WeekRequestFailed(0)
          /\ \A i \in 1..Len(seasonResult.value) :
                ~WeekRequestFailed(seasonResult.value[i].week)
    /\ (spc = "done" /\ WeekRequestFailed(0)) => seasonResult.isNull
    /\ spc \in {"setup", "fetchState", "scan", "done"}

\* the first week's request fails and the second week is still fetched and kept
C28_Witness ==
    /\ spc = "done"
    /\ ~seasonResult.isNull
    /\ weeksToProcess = 2
    /\ WeekRequestFailed(1)
    /\ Cardinality(CallsFor("matchups", 1)) = 1
    /\ weeksAttempted = <<1, 2>>
    /\ Len(seasonResult.value) = 1
    /\ seasonResult.value[1].week = 2

-----------------------------------------------------------------------------
(* The identity resolvers: fetchUserId and fetchLeagueId of api.ts, and the *)
(* memoizing fetchUserId and fetchLeagueId of index.ts:656-697              *)

\* the files that define a fetchUserId and a fetchLeagueId
Resolvers == {"api.ts", "index.ts"}
Memoizes(file) == file = "index.ts"

LookupIds == 1..MaxLookups

\* the username and the league name of the queries, and the user id that
\* GET /user/<username> answers with
IdentityUsername == "username"
IdentityLeagueName == "league name"
UserIdOf(username) == <<"id of", username>>

\* the seasons a query may name; a league has a new id every season
IdentityYears == {ToString(FirstSeason), ToString(FirstSeason + 1)}
LeagueIdOfSeason(yr) == ParseInt(yr) - FirstSeason + 1

\* GET /user/<id>/leagues/nfl/<year>: the user's leagues of the season hold
\* a league of the name, or none
UserLeagueMaps ==
    {[yr \in IdentityYears |-> IF yr \in S THEN LeagueIdOfSeason(yr) ELSE NoLeague] :
        S \in SUBSET IdentityYears}

\* index.ts:680: `${userId}-${leagueName}`
CacheKey(userId, leagueName) == <<userId, leagueName>>

\* Map.prototype.get: the value of the key, or undefined
MapGet(map, key) == IF key \in DOMAIN map THEN Some(map[key]) ELSE Null

\* a call that has not been made yet
NoLookup ==
    [pc |-> "idle", fn |-> "none", year |-> <<>>, userId |-> Null,
     result |-> Null, userRequests |-> 0, leagueRequests |-> 0,
     afterSuccess |-> FALSE]

\* the calls a query may make
LookupCalls ==
    {[fn |-> "fetchUserId", year |-> <<>>]}
    \cup {[fn |-> "fetchLeagueId", year |-> yr] : yr \in IdentityYears}

\* everything but the state of the identity resolvers
notIdentityVars == <<chainVars, yearVars, dispatchVars, matchupVars, lineupVars,
                     bracketVars, headToHeadVars, enhanceVars, playoffHistoryVars,
                     seasonVars>>

InitIdentity ==
    /\ resolver \in Resolvers
    /\ userLeagues \in UserLeagueMaps
    /\ userCache = <<>>
    /\ leagueCache = <<>>
    /\ lookups = [p \in LookupIds |-> NoLookup]
    /\ ChainIdle
    /\ YearIdle
    /\ DispatchIdle
    /\ MatchupIdle
    /\ LineupIdle
    /\ BracketIdle
    /\ HeadToHeadIdle
    /\ EnhanceIdle
    /\ PlayoffHistoryIdle
    /\ SeasonIdle

\* fetchUserId returns to its caller with the user id: fetchUserId is done,
\* fetchLeagueId goes on after its await
WithUserId(lookup, id) ==
    IF lookup.fn = "fetchUserId"
    THEN [lookup EXCEPT !.userId = Some(id), !.result = Some(id), !.pc = "done"]
    ELSE [lookup EXCEPT !.userId = Some(id), !.pc = "haveUser"]

\* index.ts:656-662, api.ts:183-184: a resolver is called; fetchUserId
\* returns the cached id, or sends GET /user/<username>
StartLookup ==
    \E p \in LookupIds, call \in LookupCalls :
        /\ lookups[p].pc = "idle"
        /\ LET cached == IF Memoizes(resolver)
                         THEN MapGet(userCache, IdentityUsername) ELSE Null
               started == [NoLookup EXCEPT
                              !.fn = call.fn, !.year = call.year,
                              !.afterSuccess =
                                  \E q \in LookupIds :
                                      /\ lookups[q].pc = "done"
                                      /\ ~lookups[q].userId.isNull]
           IN  lookups' =
                   [lookups EXCEPT ![p] =
                       IF ~cached.isNull THEN WithUserId(started, cached.value)
                       ELSE [started EXCEPT !.pc = "awaitUser", !.userRequests = 1]]
        /\ UNCHANGED <<resolver, userLeagues, userCache, leagueCache>>
        /\ UNCHANGED notIdentityVars

\* index.ts:662-664, api.ts:184-185: the user request gives null
UserRequestFails ==
    \E p \in LookupIds :
        /\ lookups[p].pc = "awaitUser"
        /\ lookups' = [lookups EXCEPT ![p].result = Null, ![p].pc = "done"]
        /\ UNCHANGED <<resolver, userLeagues, userCache, leagueCache>>
        /\ UNCHANGED notIdentityVars

\* index.ts:662-669, api.ts:184-189: the user arrives; the memoizing resolver
\* stores the id under the username
UserRequestAnswered ==
    \E p \in LookupIds :
        /\ lookups[p].pc = "awaitUser"
        /\ userCache' =
              IF Memoizes(resolver)
              THEN Put(userCache, IdentityUsername, UserIdOf(IdentityUsername))
              ELSE userCache
        /\ lookups' = [lookups EXCEPT
                          ![p] = WithUserId(@, UserIdOf(IdentityUsername))]
        /\ UNCHANGED <<resolver, userLeagues, leagueCache>>
        /\ UNCHANGED notIdentityVars

\* index.ts:677-685, api.ts:197-201: fetchLeagueId has the user id; it
\* returns the id cached under the key, or sends the leagues request of its
\* year
LeagueCacheLookup ==
    \E p \in LookupIds :
        /\ lookups[p].pc = "haveUser"
        /\ LET cached == IF Memoizes(resolver)
                         THEN MapGet(leagueCache,
                                     CacheKey(lookups[p].userId.value,
                                              IdentityLeagueName))
                         ELSE Null
           IN  lookups' =
                   [lookups EXCEPT ![p] =
                       IF ~cached.isNull
                       THEN [@ EXCEPT !.result = cached, !.pc = "done"]
                       ELSE [@ EXCEPT !.pc = "awaitLeagues", !.leagueRequests = 1]]
        /\ UNCHANGED <<resolver, userLeagues, userCache, leagueCache>>
        /\ UNCHANGED notIdentityVars

\* index.ts:684-686, api.ts:200-202: the leagues request gives null
LeaguesRequestFails ==
    \E p \in LookupIds :
        /\ lookups[p].pc = "awaitLeagues"
        /\ lookups' = [lookups EXCEPT ![p].result = Null, ![p].pc = "done"]
        /\ UNCHANGED <<resolver, userLeagues, userCache, leagueCache>>
        /\ UNCHANGED notIdentityVars

\* index.ts:684-696, api.ts:200-210: the leagues of the year arrive; the
\* league of the name, if there is one, is returned, and stored by the
\* memoizing resolver
LeaguesAnswered ==
    \E p \in LookupIds :
        /\ lookups[p].pc = "awaitLeagues"
        /\ LET league == userLeagues[lookups[p].year]
           IN  IF league = NoLeague
               THEN /\ lookups' = [lookups EXCEPT ![p].result = Null,
                                                  ![p].pc = "done"]
                    /\ UNCHANGED leagueCache
               ELSE /\ lookups' = [lookups EXCEPT ![p].result = Some(league),
                                                  ![p].pc = "done"]
                    /\ leagueCache' =
                          IF Memoizes(resolver)
                          THEN Put(leagueCache,
                                   CacheKey(lookups[p].userId.value,
                                            IdentityLeagueName), league)
                          ELSE leagueCache
        /\ UNCHANGED <<resolver, userLeagues, userCache>>
        /\ UNCHANGED notIdentityVars

NextIdentity ==
    \/ StartLookup
    \/ UserRequestFails
    \/ UserRequestAnswered
    \/ LeagueCacheLookup
    \/ LeaguesRequestFails
    \/ LeaguesAnswered

SpecIdentity == InitIdentity /\ [][NextIdentity]_vars

-----------------------------------------------------------------------------
(* Properties of the identity resolvers, under SpecIdentity *)

\* C22: a call of fetchUserId made after a call that resolved the same
\* username has returned gives the same user id and sends no request.
C22_SecondLookupIsACacheHit ==
    \A p \in DOMAIN lookups :
        (lookups[p].fn = "fetchUserId" /\ lookups[p].afterSuccess) =>
            /\ lookups[p].userRequests = 0
            /\ lookups[p].pc = "done"
            /\ lookups[p].result = Some(UserIdOf(IdentityUsername))

\* the caches only gain entries, and no entry changes its value
CachesAppendOnly ==
    /\ \A k \in DOMAIN userCache :
          k \in DOMAIN userCache' /\ userCache'[k] = userCache[k]
    /\ \A k \in DOMAIN leagueCache :
          k \in DOMAIN leagueCache' /\ leagueCache'[k] = leagueCache[k]

\* what a call answers when it runs alone and its requests succeed
AnswerAlone(lookup) ==
    IF lookup.fn = "fetchUserId" THEN Some(UserIdOf(IdentityUsername))
    ELSE IF userLeagues[lookup.year] = NoLeague THEN Null
    ELSE Some(userLeagues[lookup.year])

\* C27: however concurrent lookups for the same key interleave, the identity
\* caches only gain entries, no entry is replaced by a different value, and
\* a lookup that returns an id returns the id it returns when run alone.
C27_CachesAppendOnlyUnderRaces ==
    /\ [][CachesAppendOnly]_vars
    /\ [](\A p \in DOMAIN lookups :
              (lookups[p].pc = "done" /\ ~lookups[p].result.isNull) =>
                  lookups[p].result = AnswerAlone(lookups[p]))

\* C29: fetchLeagueId(username, leagueName, year) returns the id of a league
\* of that name among the user's leagues of the requested year, or nothing:
\* never the id of the league of another year.
C29_LeagueIdIsOfTheRequestedYear ==
    \A p \in DOMAIN lookups :
        (Memoizes(resolver) /\ lookups[p].fn = "fetchLeagueId"
            /\ lookups[p].pc = "done" /\ ~lookups[p].result.isNull) =>
            /\ userLeagues[lookups[p].year] # NoLeague
            /\ lookups[p].result.value = userLeagues[lookups[p].year]

====
